---- MODULE Spec2Model ----
(***************************************************************************)
(* Model of WorldSimulation.py: the World orchestrator (simulate_world,    *)
(* simulate_global_events, simulate_war), the shared Ecosystem and its     *)
(* lock, and the per-country turn task (Country.simulate_turn and the      *)
(* operations it calls), run concurrently on a thread pool.                *)
(*                                                                         *)
(* Units.  Python floats are held as exact fixed-point integers:           *)
(*   happiness, pollution, infrastructure_level, ecosystem_health: tenths  *)
(*   rebellion_risk, production: thousandths                               *)
(*   regional_pollution: hundredths                                        *)
(*   global_pollution: tenths times the number of countries (the mean is   *)
(*   kept as the sum, so that no division is rounded)                      *)
(* population, money, resources, tension and ideology are integers in the  *)
(* code and here.                                                          *)
(***************************************************************************)
EXTENDS Integers, Sequences, FiniteSets, TLC

\* ---------------------------------------------------------------- bounds
\* years processed by one simulate_world call (its `years` argument)
Years == 1
\* episodes run by the episode loop
Episodes == 2
\* random draws, per behaviour, that come out other than the listed default
MaxRareDraws == 1
\* calls made in a row when one function is called on its own
MaxCalls == 3

\* ------------------------------------------------------------- the actors
Names == <<"Sofialand", "Jimenara">>
Actors == {Names[i] : i \in 1..Len(Names)}
NumActors == Len(Names)
Idx(a) == CHOOSE i \in 1..Len(Names) : Names[i] = a
Others(a) == Actors \ {a}
ResourceKeys == <<"oil", "coal", "gas", "forest">>
Resources == {"oil", "coal", "gas", "forest"}
DoneYears == 1..20

\* ---------------------------------------------------------------- helpers
Max(x, y) == IF x >= y THEN x ELSE y
Min(x, y) == IF x <= y THEN x ELSE y

\* int(x * n / d): the product truncated toward zero, without overflow
TruncMul(x, n, d) ==
    IF x >= 0 THEN (x \div d) * n + ((x % d) * n) \div d
    ELSE -(((-x) \div d) * n + (((-x) % d) * n) \div d)

RECURSIVE SumOver(_, _)
SumOver(f, S) ==
    IF S = {} THEN 0
    ELSE LET x == CHOOSE y \in S : TRUE IN f[x] + SumOver(f, S \ {x})

\* 1 when a draw came out other than its default, else 0
Rare(b) == IF b THEN 1 ELSE 0

\* ------------------------------------------------------- construction
\* Country.__init__; the arguments are the fields it draws at random.
\* natural_disaster_risk and diplomatic_relations are written but never
\* read by the program and are left out.  tension_score is a total function:
\* every read of it is .get(name, 50), so an absent key is the value 50.
NewCountry(pop, gov, ideology, money, military, tech, edu, pol) ==
    [ population |-> pop,
      resources |-> [oil |-> 100, coal |-> 100, gas |-> 100, forest |-> 100],
      government |-> gov,
      ideology_score |-> ideology,
      money |-> money,
      military_power |-> military,
      happiness |-> 700,
      tech_level |-> tech,
      education_level |-> edu,
      pollution |-> pol * 10,
      production |-> 100000,
      investments |-> [economy |-> 0, environment |-> 0, infrastructure |-> 0],
      infrastructure_level |-> 500,
      rebellion_risk |-> 0,
      year |-> 0,
      has_rebelled_this_year |-> FALSE,
      tension_score |-> [b \in Actors |-> 50],
      environment_agreement |-> 0 ]

\* Ecosystem.__init__: the mean of the pollutions, each country's own
\* pollution as its regional entry, health 60, alarm 0, a free lock.
NewEcosystem(cs) ==
    [ global_pollution |-> SumOver([a \in Actors |-> cs[a].pollution], Actors),
      regional_pollution |-> [a \in Actors |-> 10 * cs[a].pollution],
      ecosystem_health |-> 600,
      alarm_level |-> 0,
      lock |-> "free" ]

\* World.__init__: no year has fired its global events
NewWorld ==
    [ global_events_done |-> [y \in DoneYears |-> FALSE],
      global_events |-> [pandemic |-> FALSE, meteor |-> FALSE,
                         economic_crash |-> FALSE, blackout |-> FALSE] ]

\* the episode set-up: the initial tensions, drawn in 40..60
InitialTension(a, b) == IF Idx(a) < Idx(b) THEN 60 ELSE 40

FreshCountries ==
    LET base == [a \in Actors |->
                   IF Idx(a) % 2 = 1
                   THEN NewCountry(10000000, "right", 20, 100000000, 50, 5, 3, 10)
                   ELSE NewCountry(20000000, "left", -20, 100000000, 300, 4, 4, 20)]
    IN [a \in Actors |->
          [base[a] EXCEPT !.tension_score =
              [b \in Actors |-> IF b = a THEN 50 ELSE InitialTension(a, b)]]]

NoFired == [y \in DoneYears |-> 0]

\* ------------------------------------------------------------ the state
VARIABLES
    countries,   \* world.countries: name -> Country fields
    ecosystem,   \* world.ecosystem: the shared fields and the holder of its lock
    world,       \* World: global_events_done and global_events
    orch,        \* simulate_world and the episode loop: position, year, episode
    task,        \* the turn task of each country: position and locals
    acc,         \* the Ecosystem fields the last step read and wrote, and whether
                 \* the Ecosystem lock was held by the one that did
    hist,        \* history: firings per year, war candidates and resolutions,
                 \* turn tasks run this year
    draws,       \* random draws so far that came out other than the default
    agents,      \* the agents dictionary: per name, per Q-table, the number of
                 \* updates applied to the table since the run started
    call,        \* a single call of one function: its arguments and its result
    locks        \* print_lock and World.lock: their holders, and where each
                 \* thread last logged and last entered the World lock

vars == <<countries, ecosystem, world, orch, task, acc, hist, draws, agents, call,
          locks>>

\* every country handed the agent of the first name
AgentOfFirst(a) == Names[1]

\* lines 701 and 916: country.agent = agents[name]
AgentOf(a) == a

\* lines 692 and 909: one RLAgent per name, every table empty
NewAgents == [a \in Actors |-> [invest_q |-> 0, agree_q |-> 0, war_q |-> 0]]

\* no function is being called on its own
NoCall == [fn |-> "none"]

\* the orchestrating thread and the turn task of each country
Threads == Actors \cup {"orch"}

\* lines 44 and 161: both locks free, nothing logged yet
NoLocks ==
    [ print_lock |-> "free", world_lock |-> "free",
      logged |-> [t \in Threads |-> <<>>], entered |-> <<>> ]

IdleTask(a) ==
    [ pc |-> "idle", partner |-> a, resource |-> "oil", amount |-> 0,
      action |-> "none", efficiency |-> 10, delta |-> 0 ]

NoAccess ==
    [by |-> "none", reads |-> {}, writes |-> {}, held |-> FALSE, decision |-> FALSE,
     agent |-> "none"]

\* the access record of a step of `who` that reads fields rs and writes ws
Access(who, rs, ws) ==
    [by |-> who, reads |-> rs, writes |-> ws, held |-> ecosystem.lock = who,
     decision |-> FALSE, agent |-> "none"]

\* the record of a read that feeds a decision of `who`: the state handed to
\* the agent, a reward, the efficiency, the trade test, the tax test
DecisionRead(who, rs) == [Access(who, rs, {}) EXCEPT !.decision = TRUE]

\* the record of a step of `who` that calls get_state, choose_action or update
\* on self.agent: the state it hands over reads the ecosystem health (line 70)
\* and the tables touched are those of the agent assigned to `who`
AgentCall(who) ==
    [DecisionRead(who, {"ecosystem_health"}) EXCEPT !.agent = AgentOf(who)]

\* RLAgent.update on one table of one agent: one more update applied
Updated(ags, g, table) == [ags EXCEPT ![g][table] = @ + 1]

NewHist ==
    [ fired |-> NoFired, candidates |-> {}, resolved |-> 0, wars |-> <<>>,
      runs |-> [a \in Actors |-> 0] ]

\* ------------------------------------------------ worlds the run starts in
\* A world as first handed to simulate_world: freshly constructed, year 1.
FreshStart(driver) ==
    [ countries |-> FreshCountries,
      ecosystem |-> NewEcosystem(FreshCountries),
      world |-> NewWorld,
      orch |-> [pc |-> "global_events", year |-> 1, last |-> Years,
                episode |-> 1, driver |-> driver, potential_wars |-> <<>>],
      hist |-> NewHist ]

\* A world in the middle of an episode of the episode loop, at the start of
\* year 8: fuel has run low in one country, a tension has passed 70, pollution
\* is low and the ecosystem healthy; one country has joined the agreement.
ScarceCountries ==
    [a \in Actors |->
       IF Idx(a) % 2 = 1
       THEN [ NewCountry(9000000, "right", 20, 60000000, 40, 5, 3, 12) EXCEPT
                !.happiness = 980, !.production = 110000, !.year = 7,
                !.resources = [oil |-> 8, coal |-> 50, gas |-> 40, forest |-> 60],
                !.tension_score = [b \in Actors |-> IF b = a THEN 50 ELSE 75] ]
       ELSE [ NewCountry(15000000, "left", -20, 50000000, 120, 4, 4, 10) EXCEPT
                !.happiness = 150, !.production = 105000, !.year = 7,
                !.rebellion_risk = 300, !.environment_agreement = 1,
                !.resources = [oil |-> 12, coal |-> 60, gas |-> 60, forest |-> 75],
                !.tension_score = [b \in Actors |-> IF b = a THEN 50 ELSE 55] ] ]

\* A world in the middle of an episode, at the start of year 5: pollution is
\* high, the ecosystem nearly dead, the alarm raised once, fuel exhausted.
DegradedCountries ==
    [a \in Actors |->
       IF Idx(a) % 2 = 1
       THEN [ NewCountry(5000000, "right", 30, 12000000, 20, 2, 2, 70) EXCEPT
                !.happiness = 30, !.production = 90000, !.year = 4,
                !.infrastructure_level = 450, !.rebellion_risk = 400,
                !.resources = [oil |-> 0, coal |-> 0, gas |-> 0, forest |-> 20] ]
       ELSE [ NewCountry(8000000, "left", -30, 8000000, 30, 3, 4, 90) EXCEPT
                !.happiness = 250, !.production = 120000, !.year = 4,
                !.infrastructure_level = 720, !.rebellion_risk = 200,
                !.resources = [oil |-> 3, coal |-> 2, gas |-> 1, forest |-> 45] ] ]

\* A world in the middle of an episode, at the start of year 9: rejected
\* trades have driven both tensions high, the alarm has been raised twice and
\* the global pollution has since fallen back below 50.
HostileCountries ==
    [a \in Actors |->
       IF Idx(a) % 2 = 1
       THEN [ NewCountry(12000000, "right", 40, 80000000, 60, 4, 3, 40) EXCEPT
                !.happiness = 500, !.production = 104000, !.year = 8,
                !.resources = [oil |-> 5, coal |-> 30, gas |-> 25, forest |-> 55],
                !.tension_score = [b \in Actors |-> IF b = a THEN 50 ELSE 98] ]
       ELSE [ NewCountry(18000000, "left", -40, 70000000, 100, 3, 4, 50) EXCEPT
                !.happiness = 450, !.production = 103000, !.year = 8,
                !.resources = [oil |-> 30, coal |-> 40, gas |-> 30, forest |-> 50],
                !.tension_score = [b \in Actors |-> IF b = a THEN 50 ELSE 85] ] ]

MidEpisode(cs, year, health, alarm) ==
    [ countries |-> cs,
      ecosystem |->
        [ global_pollution |-> SumOver([a \in Actors |-> cs[a].pollution], Actors),
          regional_pollution |->
            [a \in Actors |-> 10 * cs[a].pollution
                 + SumOver([b \in Actors |-> cs[b].pollution], Others(a))],
          ecosystem_health |-> health,
          alarm_level |-> alarm,
          lock |-> "free" ],
      world |-> [NewWorld EXCEPT !.global_events_done =
                    [y \in DoneYears |-> y < year]],
      orch |-> [pc |-> "global_events", year |-> year, last |-> year + Years - 1,
                episode |-> 1, driver |-> "batch", potential_wars |-> <<>>],
      hist |-> [NewHist EXCEPT !.fired =
                    [y \in DoneYears |-> IF y < year THEN 1 ELSE 0]] ]

Starts ==
    { FreshStart("batch"), FreshStart("gui"),
      MidEpisode(ScarceCountries, 8, 970, 0),
      MidEpisode(DegradedCountries, 5, 20, 1),
      MidEpisode(HostileCountries, 9, 400, 2) }

Init ==
    \E s \in Starts :
        /\ countries = s.countries
        /\ ecosystem = s.ecosystem
        /\ world = s.world
        /\ orch = s.orch
        /\ hist = s.hist
        /\ task = [a \in Actors |-> IdleTask(a)]
        /\ acc = NoAccess
        /\ draws = 0
        /\ agents = NewAgents
        /\ call = NoCall
        /\ locks = NoLocks

\* ------------------------------------------------------------ random draws
Bool == {FALSE, TRUE}
\* random.randint(5, 20), at its two ends (meteor loss, trade amount)
Draw5to20 == {5, 20}
\* random.uniform(0.03, 0.07), in percent, at its two ends
TechMigrationPercent == {3, 7}
\* random.randint(30, 40), at its two ends
RebellionHappiness == {30, 40}

\* ------------------------------------------- World.simulate_global_events
\* the effect of each event on one country (the loops of lines 176-204)
Pandemic(c) ==
    [c EXCEPT !.production = TruncMul(c.production, 5, 10),
              !.happiness = Max(0, c.happiness - 100),
              !.pollution = c.pollution + 20,
              !.population = TruncMul(c.population, 98, 100)]

Meteor(c, loss) ==
    [c EXCEPT !.resources = [k \in Resources |-> Max(0, c.resources[k] - loss)],
              !.happiness = Max(0, c.happiness - 50),
              !.pollution = c.pollution + 30,
              !.tech_level = Max(1, c.tech_level - 1)]

EconomicCrash(c) ==
    [c EXCEPT !.money = TruncMul(c.money, 7, 10),
              !.happiness = Max(0, c.happiness - 100),
              !.pollution = c.pollution + 30]

Blackout(c) ==
    [c EXCEPT !.tech_level = Max(1, c.tech_level - 1),
              !.production = TruncMul(c.production, 6, 10),
              !.pollution = c.pollution + 20]

ApplyEvents(c, ev, loss) ==
    LET c1 == IF ev.pandemic THEN Pandemic(c) ELSE c
        c2 == IF ev.meteor THEN Meteor(c1, loss) ELSE c1
        c3 == IF ev.economic_crash THEN EconomicCrash(c2) ELSE c2
    IN IF ev.blackout THEN Blackout(c3) ELSE c3

\* what the events that fired add to every regional_pollution entry
EventRegional(ev) ==
    (IF ev.pandemic THEN 200 ELSE 0) + (IF ev.meteor THEN 300 ELSE 0)
    + (IF ev.economic_crash THEN 300 ELSE 0) + (IF ev.blackout THEN 200 ELSE 0)

AnyEvent(ev) == ev.pandemic \/ ev.meteor \/ ev.economic_crash \/ ev.blackout

EventCount(ev) ==
    Rare(ev.pandemic) + Rare(ev.meteor) + Rare(ev.economic_crash) + Rare(ev.blackout)

\* the test of line 166 with its result ignored: no year is ever found done
EventsDoneIgnored(done, year) == FALSE

\* line 166: the test of simulate_global_events, under the World lock
EventsDone(done, year) == done[year]

\* line 168: the year's flag set, under the same hold of the World lock
MarkDone(done, year) == [done EXCEPT ![year] = TRUE]

\* line 220: the test of simulate_war, under the World lock
WarSkips(done, year) == done[year]

\* ------------------------------------------------------------- Ecosystem
\* the penalty of update_pollution for a regional pollution above 50
PollutionPenalty(c) ==
    [c EXCEPT !.happiness = Max(0, c.happiness - 50),
              !.resources.forest = Max(0, c.resources.forest - 10),
              !.rebellion_risk = c.rebellion_risk + 50]

\* line 104 without the share of the neighbours
RegionalOfOwn(cs, a) == 10 * cs[a].pollution

\* regional_pollution[country.name] of line 104
RegionalOf(cs, a) ==
    10 * cs[a].pollution + SumOver([b \in Actors |-> cs[b].pollution], Others(a))

\* line 111 written without its max(0, ...)
DecayedHealthUnclamped(health, gp) ==
    Min(1000, health - 10 * (gp \div (50 * NumActors)))

\* line 111: ecosystem_health less int(global_pollution / 5), clamped
DecayedHealth(health, gp) ==
    Max(0, Min(1000, health - 10 * (gp \div (50 * NumActors))))

\* sound_alarm: the first threshold exceeded whose level is above the current
AlarmThreshold(i) == CASE i = 1 -> 30 [] i = 2 -> 50 [] i = 3 -> 70
\* sound_alarm with the test `alarm_level < i` of line 121 left out
AlarmAfterUnguarded(alarm, gp) ==
    LET hit == {i \in 1..3 : gp > AlarmThreshold(i) * 10 * NumActors}
    IN IF hit = {} THEN alarm ELSE CHOOSE i \in hit : \A j \in hit : i <= j

\* sound_alarm raising the level to the highest threshold exceeded
AlarmAfterHighest(alarm, gp) ==
    LET hit == {i \in 1..3 : gp > AlarmThreshold(i) * 10 * NumActors /\ alarm < i}
    IN IF hit = {} THEN alarm ELSE CHOOSE i \in hit : \A j \in hit : i >= j

AlarmAfter(alarm, gp) ==
    LET hit == {i \in 1..3 : gp > AlarmThreshold(i) * 10 * NumActors /\ alarm < i}
    IN IF hit = {} THEN alarm ELSE CHOOSE i \in hit : \A j \in hit : i <= j

\* the multiplier with the bounds 50 and 70 taken inclusive
Multiplier2Inclusive(c) ==
    IF c.infrastructure_level <= 500 THEN 4
    ELSE IF c.infrastructure_level >= 700 THEN 1 ELSE 2

\* twice the severity multiplier of trigger_disasters: 2, 0.5 or 1
Multiplier2(c) ==
    IF c.infrastructure_level < 500 THEN 4
    ELSE IF c.infrastructure_level > 700 THEN 1 ELSE 2

\* max(countries, key=regional_pollution) over the countries in S: the first
\* in list order among those with the highest value
Worst(reg, S) ==
    CHOOSE a \in S :
        \A b \in S : reg[a] > reg[b] \/ (reg[a] = reg[b] /\ Idx(a) <= Idx(b))

\* sorted(countries, key=regional_pollution, reverse=True)[:2]
WorstTwo(reg) ==
    LET first == Worst(reg, Actors)
    IN IF Others(first) = {} THEN {first}
       ELSE {first, Worst(reg, Others(first))}

Disease(c) ==
    LET m == Multiplier2(c)
    IN [c EXCEPT !.population = TruncMul(c.population, 1000 - 25 * m, 1000),
                 !.happiness = Max(0, c.happiness - 50 * m),
                 !.rebellion_risk = c.rebellion_risk + 25 * m]

Earthquake(c) ==
    LET m == Multiplier2(c)
    IN [c EXCEPT !.population = Max(0, c.population - 2500 * m),
                 !.production = Max(0, TruncMul(c.production, 10 - m, 10)),
                 !.happiness = Max(0, c.happiness - 25 * m)]

Flood(c) ==
    LET m == Multiplier2(c)
    IN [c EXCEPT !.resources.forest = Max(0, c.resources.forest - 10 * m),
                 !.money = TruncMul(c.money, 20 - m, 20),
                 !.happiness = Max(0, c.happiness - 25 * m)]

\* trigger_disasters on the countries cs: disease, earthquake on `target`,
\* flood, each when its flag is set
Disasters(cs, reg, disease, quake, target, flood) ==
    LET w == Worst(reg, Actors)
        c1 == IF disease THEN [cs EXCEPT ![w] = Disease(cs[w])] ELSE cs
        c2 == IF quake THEN [c1 EXCEPT ![target] = Earthquake(c1[target])] ELSE c1
    IN IF flood THEN [a \in Actors |-> IF a \in WorstTwo(reg) THEN Flood(c2[a]) ELSE c2[a]]
       ELSE c2

\* ------------------------------------------------------ World.simulate_war
\* lines 222-230: the ordered pairs whose tension, plus 5 when the global
\* pollution is above 50, is above 70
PotentialWars(cs, gp) ==
    { pr \in Actors \X Actors :
        /\ pr[1] # pr[2]
        /\ cs[pr[1]].tension_score[pr[2]]
             + (IF gp > 500 * NumActors THEN 5 ELSE 0) > 70 }

\* get_diplomatic_status with the bounds 30 and 70 taken inclusive
GetDiplomaticStatusInclusive(c, other) ==
    LET tension == c.tension_score[other]
    IN IF tension <= 30 THEN "friendly"
       ELSE IF tension >= 70 THEN "hostile" ELSE "neutral"

\* Country.get_diplomatic_status, lines 324-330
GetDiplomaticStatus(c, other) ==
    LET tension == c.tension_score[other]
    IN IF tension < 30 THEN "friendly"
       ELSE IF tension > 70 THEN "hostile" ELSE "neutral"

\* update_tension with the min and max of line 334 left out
UpdateTensionUnclamped(c, partner, change) ==
    [c EXCEPT !.tension_score[partner] = c.tension_score[partner] + change]

\* update_tension, line 334
UpdateTension(c, partner, change) ==
    [c EXCEPT !.tension_score[partner] =
        Min(100, Max(0, c.tension_score[partner] + change))]

\* lines 234 and 251: the state handed to the war table
GetState(c, health, tension) ==
    << Min(5, c.happiness \div 200),
       Min(5, c.pollution \div 200),
       Min(5, c.infrastructure_level \div 200),
       Min(5, (c.production \div 1000) \div 50),
       IF c.government = "right" THEN 0 ELSE 1,
       Min(5, health \div 200),
       Min(5, Max(0, (tension - 50) \div 10)) >>

\* the factor tech_level * (1 + oil / 100 + gas / 200) of lines 247-248,
\* times 200
Strength(c) == c.tech_level * (200 + 2 * c.resources.oil + c.resources.gas)

\* population * k as the pair <<thousands, rest>> of its decimal digits
Score(population, k) ==
    LET low == (population % 1000) * k
    IN << (population \div 1000) * k + low \div 1000, low % 1000 >>

\* lines 247-248, both times 4000: 0.15 against 0.20 is 3 against 4
AttackScore(c) == Score(c.population, 3 * Strength(c))
DefenseScore(c) == Score(c.population, 4 * Strength(c))

\* the test of line 249 never succeeding
EqualPowerNever(attacker, defender) == FALSE

\* line 249
EqualPower(attacker, defender) == AttackScore(attacker) = DefenseScore(defender)

\* line 255
AttackerWins(attacker, defender) ==
    LET att == AttackScore(attacker)
        def == DefenseScore(defender)
    IN att[1] > def[1] \/ (att[1] = def[1] /\ att[2] > def[2])

\* lines 257-272 and 278-283: the loser hands over int(30%) of every resource
\* and loses int(5%) of its population, the winner int(2%); happiness,
\* pollution, rebellion risk and both tensions move; `signed` is the draw of
\* line 280
Fight(cs, winner, loser, signed) ==
    LET w == cs[winner]
        l == cs[loser]
        loss == [r \in Resources |-> TruncMul(l.resources[r], 3, 10)]
        w1 == [w EXCEPT
                 !.resources = [r \in Resources |-> w.resources[r] + loss[r]],
                 !.population = w.population - TruncMul(w.population, 2, 100),
                 !.happiness = Min(1000, w.happiness + 50),
                 !.pollution = w.pollution + 120,
                 !.rebellion_risk = w.rebellion_risk + 50]
        l1 == [l EXCEPT
                 !.resources = [r \in Resources |-> Max(0, l.resources[r] - loss[r])],
                 !.population = l.population - TruncMul(l.population, 5, 100),
                 !.happiness = Max(0, l.happiness - 100),
                 !.pollution = l.pollution + 120,
                 !.rebellion_risk = l.rebellion_risk + 50]
        w2 == UpdateTension(w1, loser, 10)
        l2 == UpdateTension(l1, winner, 30)
    IN [cs EXCEPT
          ![winner] = IF signed THEN UpdateTension(w2, loser, -20) ELSE w2,
          ![loser] = IF signed THEN UpdateTension(l2, winner, -20) ELSE l2]

\* lines 274-277
FightEcosystem(eco, winner, loser) ==
    [eco EXCEPT
       !.global_pollution = eco.global_pollution + 20 * NumActors,
       !.regional_pollution = [a \in Actors |->
            eco.regional_pollution[a] + (IF a \in {winner, loser} THEN 1200 ELSE 0)],
       !.ecosystem_health = Max(0, eco.ecosystem_health - 150)]

\* lines 285-294, in tenths: the money never changes in a war
FightReward(old, new, old_eco, new_eco, won) ==
    (new.happiness - old.happiness)
    + (new.money - old.money) \div 1000000
    - (new.pollution - old.pollution)
    - 2 * (old_eco - new_eco)
    - (new.rebellion_risk - old.rebellion_risk) \div 10
    + (IF won THEN 100 ELSE -100)

\* the shuffled list of line 231 walked to its end, with no cut
FirstTwoUncut(pairs) ==
    LET n == Cardinality(pairs)
    IN { q \in [1..n -> pairs] : \A i, j \in 1..n : q[i] = q[j] => i = j }

\* the orders random.shuffle can leave, cut to the first two pairs (line 232)
FirstTwo(pairs) ==
    LET n == Min(2, Cardinality(pairs))
    IN { q \in [1..n -> pairs] : \A i, j \in 1..n : q[i] = q[j] => i = j }

\* ------------------------------------------------- the orchestrator's steps
OrchAt(p) == orch.pc = p
\* no turn task is running: none submitted yet, or every one has returned
TasksIdle == \A a \in Actors : task[a].pc \in {"idle", "done"}

\* simulate_global_events, lines 164-168: under the World lock, return when
\* the year is marked done, else mark it.  A year outside the dictionary,
\* which simulate_world never passes, raises KeyError and draws no event.
GlobalEventsCheck ==
    /\ OrchAt("global_events")
    /\ IF orch.year \in DoneYears /\ ~EventsDone(world.global_events_done, orch.year)
       THEN /\ world' = [world EXCEPT !.global_events_done =
                            MarkDone(world.global_events_done, orch.year)]
            /\ orch' = [orch EXCEPT !.pc = "ge_events"]
       ELSE /\ world' = world
            /\ orch' = [orch EXCEPT !.pc = "war"]
    /\ acc' = NoAccess
    /\ UNCHANGED <<countries, ecosystem, task, hist, draws, agents, call, locks>>

\* lines 169-204: draw the four events and apply those that fired
GlobalEventsFire ==
    /\ OrchAt("ge_events")
    /\ \E pandemic \in Bool, meteor \in Bool, crash \in Bool, blackout \in Bool,
          loss \in Draw5to20 :
         LET ev == [pandemic |-> pandemic, meteor |-> meteor,
                    economic_crash |-> crash, blackout |-> blackout]
         IN /\ meteor \/ loss = 5
            /\ draws + EventCount(ev) <= MaxRareDraws
            /\ draws' = draws + EventCount(ev)
            /\ world' = [world EXCEPT !.global_events = ev]
            /\ countries' = [a \in Actors |-> ApplyEvents(countries[a], ev, loss)]
            /\ ecosystem' = [ecosystem EXCEPT !.regional_pollution =
                   [a \in Actors |-> ecosystem.regional_pollution[a] + EventRegional(ev)]]
            /\ acc' = Access("orch", {},
                             IF AnyEvent(ev) THEN {"regional_pollution"} ELSE {})
    /\ hist' = [hist EXCEPT !.fired[orch.year] = @ + 1]
    /\ orch' = [orch EXCEPT !.pc = "update_pollution"]
    /\ UNCHANGED <<task, agents, call, locks>>

\* `with self.lock:` of update_pollution, sound_alarm and trigger_disasters
OrchAcquire ==
    /\ orch.pc \in {"update_pollution", "sound_alarm", "trigger_disasters"}
    /\ ecosystem.lock = "free"
    /\ ecosystem' = [ecosystem EXCEPT !.lock = "orch"]
    /\ orch' = [orch EXCEPT !.pc =
                  CASE orch.pc = "update_pollution" -> "update_pollution_locked"
                    [] orch.pc = "sound_alarm" -> "sound_alarm_locked"
                    [] orch.pc = "trigger_disasters" -> "trigger_disasters_locked"]
    /\ acc' = NoAccess
    /\ UNCHANGED <<countries, world, task, hist, draws, agents, call, locks>>

\* Ecosystem.update_pollution, lines 98-112, and the release of the lock
UpdatePollution ==
    /\ OrchAt("update_pollution_locked")
    /\ LET gp == SumOver([a \in Actors |-> countries[a].pollution], Actors)
           reg == [a \in Actors |-> RegionalOf(countries, a)]
       IN /\ countries' = [a \in Actors |->
                 IF reg[a] > 5000 THEN PollutionPenalty(countries[a])
                 ELSE countries[a]]
          /\ acc' = Access("orch", {"global_pollution", "ecosystem_health"},
                 {"global_pollution", "regional_pollution", "ecosystem_health"})
          /\ ecosystem' = [ecosystem EXCEPT
                 !.global_pollution = gp,
                 !.regional_pollution = reg,
                 !.ecosystem_health = DecayedHealth(ecosystem.ecosystem_health, gp),
                 !.lock = "free"]
    /\ orch' = [orch EXCEPT !.pc = "sound_alarm"]
    /\ UNCHANGED <<world, task, hist, draws, agents, call, locks>>

\* Ecosystem.sound_alarm, lines 119-124, and the release of the lock
SoundAlarm ==
    /\ OrchAt("sound_alarm_locked")
    /\ LET level == AlarmAfter(ecosystem.alarm_level, ecosystem.global_pollution)
       IN /\ acc' = Access("orch", {"global_pollution", "alarm_level"},
                           IF level # ecosystem.alarm_level THEN {"alarm_level"} ELSE {})
          /\ ecosystem' = [ecosystem EXCEPT !.alarm_level = level, !.lock = "free"]
    /\ orch' = [orch EXCEPT !.pc = "trigger_disasters"]
    /\ UNCHANGED <<countries, world, task, hist, draws, agents, call, locks>>

\* Ecosystem.trigger_disasters, lines 131-152, and the release of the lock.
\* A disaster strikes when the alarm level reaches its threshold or its
\* random draw succeeds; the earthquake's target is drawn among the countries.
TriggerDisasters ==
    /\ OrchAt("trigger_disasters_locked")
    /\ \E d1 \in Bool, d2 \in Bool, d3 \in Bool, target \in Actors :
         LET level == ecosystem.alarm_level
             disease == level >= 1 \/ d1
             quake == level >= 2 \/ d2
             flood == level >= 3 \/ d3
             cost == Rare(d1 /\ level < 1) + Rare(d2 /\ level < 2)
                       + Rare(d3 /\ level < 3)
                       + Rare(quake /\ target # Names[1])
         IN /\ (level >= 1) => ~d1
            /\ (level >= 2) => ~d2
            /\ (level >= 3) => ~d3
            /\ quake \/ target = Names[1]
            /\ draws + cost <= MaxRareDraws
            /\ draws' = draws + cost
            /\ countries' = Disasters(countries, ecosystem.regional_pollution,
                                      disease, quake, target, flood)
    /\ acc' = Access("orch", {"alarm_level", "regional_pollution"}, {})
    /\ ecosystem' = [ecosystem EXCEPT !.lock = "free"]
    /\ orch' = [orch EXCEPT !.pc = "war"]
    /\ UNCHANGED <<world, task, hist, agents, call, locks>>

\* simulate_war, lines 218-221: under the World lock, return when the year is
\* marked done (KeyError for a year outside the dictionary ends the call too).
\* hist.candidates records the pairs lines 222-230 would find at this moment.
SimulateWar ==
    /\ OrchAt("war")
    /\ hist' = [hist EXCEPT
           !.candidates = PotentialWars(countries, ecosystem.global_pollution),
           !.resolved = 0]
    /\ IF orch.year \in DoneYears /\ ~WarSkips(world.global_events_done, orch.year)
       THEN orch' = [orch EXCEPT !.pc = "war_build"]
       ELSE orch' = [orch EXCEPT !.pc = "dispatch"]
    /\ acc' = NoAccess
    /\ UNCHANGED <<countries, ecosystem, world, task, draws, agents, call, locks>>

\* lines 222-232: the candidate pairs are collected, shuffled and cut to two
WarBuild ==
    /\ OrchAt("war_build")
    /\ \E q \in FirstTwo(PotentialWars(countries, ecosystem.global_pollution)) :
         orch' = [orch EXCEPT !.pc = "war_resolve", !.potential_wars = q]
    /\ acc' = Access("orch", {"global_pollution"}, {})
    /\ UNCHANGED <<countries, ecosystem, world, task, hist, draws, agents, call, locks>>

\* lines 232-295, one pass of the loop: the attacker's agent chooses between
\* attack and peace; peace and equal power change nothing but the war table;
\* otherwise the fight is settled and the table learns its reward
WarResolve ==
    /\ OrchAt("war_resolve")
    /\ orch.potential_wars # <<>>
    /\ LET attacker == Head(orch.potential_wars)[1]
           defender == Head(orch.potential_wars)[2]
           att == countries[attacker]
           def == countries[defender]
           tension == att.tension_score[defender]
           state == GetState(att, ecosystem.ecosystem_health, tension)
       IN \E action \in {"attack", "peace"}, signed \in Bool :
            /\ draws + Rare(action = "peace") <= MaxRareDraws
            /\ draws' = draws + Rare(action = "peace")
            /\ IF action = "peace" \/ EqualPower(att, def)
               THEN /\ ~signed
                    /\ UNCHANGED <<countries, ecosystem>>
                    /\ acc' = [Access("orch", {"ecosystem_health"}, {})
                                 EXCEPT !.agent = AgentOf(attacker)]
                    /\ hist' = [hist EXCEPT
                          !.resolved = @ + 1,
                          !.wars = Append(@,
                            [attacker |-> attacker, defender |-> defender,
                             state |-> state, action |-> action,
                             reward |-> IF action = "peace" THEN 10 ELSE -10,
                             new_state |-> state])]
               ELSE LET won == AttackerWins(att, def)
                        winner == IF won THEN attacker ELSE defender
                        loser == IF won THEN defender ELSE attacker
                        cs == Fight(countries, winner, loser, signed)
                        eco == FightEcosystem(ecosystem, winner, loser)
                    IN /\ countries' = cs
                       /\ ecosystem' = eco
                       /\ acc' = [Access("orch", {"ecosystem_health", "global_pollution",
                                                  "regional_pollution"},
                                         {"ecosystem_health", "global_pollution",
                                          "regional_pollution"})
                                    EXCEPT !.agent = AgentOf(attacker)]
                       /\ hist' = [hist EXCEPT
                             !.resolved = @ + 1,
                             !.wars = Append(@,
                               [attacker |-> attacker, defender |-> defender,
                                state |-> state, action |-> action,
                                reward |-> FightReward(att, cs[attacker],
                                              ecosystem.ecosystem_health,
                                              eco.ecosystem_health, won),
                                new_state |-> GetState(cs[attacker],
                                                eco.ecosystem_health,
                                                cs[attacker].tension_score[defender])])]
    /\ agents' = Updated(agents, AgentOf(Head(orch.potential_wars)[1]), "war_q")
    /\ orch' = [orch EXCEPT !.potential_wars = Tail(@)]
    /\ UNCHANGED <<world, task, call, locks>>

\* the loop of line 232 has no pair left: simulate_war returns
WarReturn ==
    /\ OrchAt("war_resolve")
    /\ orch.potential_wars = <<>>
    /\ orch' = [orch EXCEPT !.pc = "dispatch"]
    /\ acc' = NoAccess
    /\ UNCHANGED <<countries, ecosystem, world, task, hist, draws, agents, call, locks>>

\* simulate_world, lines 678-679: one simulate_turn is submitted per country
\* to a pool with as many workers as countries
Dispatch ==
    /\ OrchAt("dispatch")
    /\ task' = [a \in Actors |-> [IdleTask(a) EXCEPT !.pc = "growth"]]
    /\ hist' = [hist EXCEPT !.runs = [a \in Actors |-> 0]]
    /\ orch' = [orch EXCEPT !.pc = "barrier"]
    /\ acc' = NoAccess
    /\ UNCHANGED <<countries, ecosystem, world, draws, agents, call, locks>>

\* the wait of lines 680-685 ended by the first result instead of the last
BarrierReadyFirst == \E a \in Actors : task[a].pc = "done"

\* lines 680-685: every future has a result and the pool has shut down
BarrierReady == \A a \in Actors : task[a].pc = "done"

Barrier ==
    /\ OrchAt("barrier")
    /\ BarrierReady
    /\ orch' = [orch EXCEPT !.pc = "year_completed"]
    /\ acc' = NoAccess
    /\ UNCHANGED <<countries, ecosystem, world, task, hist, draws, agents, call, locks>>

\* line 674: the next year of the loop, or line 689 when the loop has ended
NextYear ==
    /\ OrchAt("year_completed")
    /\ IF orch.year < orch.last
       THEN orch' = [orch EXCEPT !.pc = "global_events", !.year = orch.year + 1]
       ELSE orch' = [orch EXCEPT !.pc = "finished"]
    /\ acc' = NoAccess
    /\ UNCHANGED <<countries, ecosystem, world, task, hist, draws, agents, call, locks>>

\* the episode loop of lines 695-714: a new World, new countries, a new
\* Ecosystem, then simulate_world on them
NewEpisodeFresh ==
    /\ OrchAt("finished")
    /\ orch.driver = "batch"
    /\ orch.episode < Episodes
    /\ countries' = FreshCountries
    /\ ecosystem' = NewEcosystem(FreshCountries)
    /\ world' = NewWorld
    /\ hist' = NewHist
    /\ orch' = [orch EXCEPT !.pc = "global_events", !.year = 1, !.last = Years,
                            !.episode = orch.episode + 1]
    /\ acc' = NoAccess
    /\ UNCHANGED <<task, draws, agents, call, locks>>

\* run_simulation_thread, lines 897-898: simulate_world again on the same world
NewEpisodeReuse ==
    /\ OrchAt("finished")
    /\ orch.driver = "gui"
    /\ orch.episode < Episodes
    /\ orch' = [orch EXCEPT !.pc = "global_events", !.year = 1, !.last = Years,
                            !.episode = orch.episode + 1]
    /\ acc' = NoAccess
    /\ UNCHANGED <<countries, ecosystem, world, task, hist, draws, agents, call, locks>>

\* ----------------------------------------------------------------- Country
Flip(gov) == IF gov = "right" THEN "left" ELSE "right"

\* simulate_turn, lines 521-524
Growth(c) ==
    LET production == c.production + c.tech_level * c.education_level * 100
    IN [c EXCEPT !.year = c.year + 1,
                 !.population = c.population + c.population \div 100,
                 !.production = production,
                 !.money = c.money + production]

\* lines 527-529: oil, coal and gas consumed when production is above 100
Consumed(c) ==
    [oil |-> Min(5, c.resources.oil), coal |-> Min(3, c.resources.coal),
     gas |-> Min(2, c.resources.gas)]

\* the pollution (tenths) that consumption adds, lines 533 and 535
ConsumptionPollution(c) ==
    Consumed(c).oil * 15 + Consumed(c).coal * 20 + Consumed(c).gas * 5

\* lines 530-533
Consume(c) ==
    [c EXCEPT !.resources.oil = Max(0, c.resources.oil - Consumed(c).oil),
              !.resources.coal = Max(0, c.resources.coal - Consumed(c).coal),
              !.resources.gas = Max(0, c.resources.gas - Consumed(c).gas),
              !.pollution = c.pollution + ConsumptionPollution(c)]

\* lines 537-549: the penalties of an exhausted fuel
Scarcity(c) ==
    LET c1 == IF c.resources.oil = 0
              THEN [c EXCEPT !.production = TruncMul(c.production, 7, 10),
                             !.happiness = Max(0, c.happiness - 100),
                             !.rebellion_risk = c.rebellion_risk + 100]
              ELSE c
        c2 == IF c1.resources.coal = 0
              THEN [c1 EXCEPT !.production = TruncMul(c1.production, 8, 10),
                              !.happiness = Max(0, c1.happiness - 50)]
              ELSE c1
    IN IF c2.resources.gas = 0
       THEN [c2 EXCEPT !.production = TruncMul(c2.production, 9, 10),
                       !.money = c2.money - 5000]
       ELSE c2

\* lines 550-551 and 555-557: the forest's effect on the country itself
ForestFeedback(c) ==
    IF c.resources.forest > 70
    THEN [c EXCEPT !.happiness = Min(1000, c.happiness + 30)]
    ELSE IF c.resources.forest < 30
    THEN [c EXCEPT !.happiness = Max(0, c.happiness - 30),
                   !.rebellion_risk = c.rebellion_risk + 50]
    ELSE c

\* lines 559-569: regeneration, the government's bonus, production's pollution
Regenerate(c) ==
    LET c1 == [c EXCEPT !.resources.forest = c.resources.forest + 2]
        c2 == IF c1.government = "left"
              THEN [c1 EXCEPT !.resources = [k \in Resources |-> c1.resources[k] + 3]]
              ELSE [c1 EXCEPT !.resources.oil = c1.resources.oil + 2,
                              !.resources.coal = c1.resources.coal + 2]
    IN IF c2.production > 100000
       THEN [c2 EXCEPT !.pollution = c2.pollution + 30]
       ELSE c2

\* lines 572-581, given the ecosystem health read
EcosystemFeedback(c, health) ==
    IF health < 300
    THEN [c EXCEPT !.happiness = Max(0, c.happiness - 50),
                   !.rebellion_risk = c.rebellion_risk + 50]
    ELSE IF health > 700
    THEN [c EXCEPT !.happiness =
                     Min(1000, c.happiness + (IF c.government = "right" THEN 50 ELSE 70)),
                   !.money = TruncMul(c.money, 105, 100)]
    ELSE c

\* the sports year with the max of line 584 left out
SportsYearUnfloored(c) ==
    [c EXCEPT !.happiness = Min(1000, c.happiness + 50),
              !.rebellion_risk = c.rebellion_risk - 2000,
              !.production = TruncMul(c.production, 11, 10)]

\* lines 582-586
SportsYear(c) ==
    [c EXCEPT !.happiness = Min(1000, c.happiness + 50),
              !.rebellion_risk = Max(0, c.rebellion_risk - 2000),
              !.production = TruncMul(c.production, 11, 10)]

\* lines 587-591
EducationMigration(c) ==
    [c EXCEPT !.population = c.population - c.population \div 100,
              !.happiness = Max(0, c.happiness - 20)]

\* lines 592-596, the fraction drawn given in percent
TechMigration(c, percent) ==
    [c EXCEPT !.population = c.population - TruncMul(c.population, percent, 100),
              !.happiness = Max(0, c.happiness - 50)]

\* collect_taxes with line 437 written without its max(0, ...)
CollectTaxesUnclamped(c, gp) ==
    LET base == IF c.government = "right" THEN c.population \div 20
                ELSE c.population \div 10
        income == IF c.government = "right" /\ c.infrastructure_level > 700
                  THEN TruncMul(base, 110, 100) ELSE base
        loss == (IF c.government = "right" THEN 20 ELSE 50)
                  + (IF gp > 500 * NumActors THEN 30 ELSE 0)
    IN [c EXCEPT !.money = c.money + income,
                 !.happiness = c.happiness - loss]

\* collect_taxes, lines 428-438, given the global pollution read
CollectTaxes(c, gp) ==
    LET base == IF c.government = "right" THEN c.population \div 20
                ELSE c.population \div 10
        income == IF c.government = "right" /\ c.infrastructure_level > 700
                  THEN TruncMul(base, 110, 100) ELSE base
        loss == (IF c.government = "right" THEN 20 ELSE 50)
                  + (IF gp > 500 * NumActors THEN 30 ELSE 0)
    IN [c EXCEPT !.money = c.money + income,
                 !.happiness = Max(0, c.happiness - loss)]

\* trade_resources, lines 389-395: the resource with the largest shortfall,
\* the first in the dictionary's order among equals
Need(c, k) ==
    CASE k = "oil" -> 30 - c.resources.oil
      [] k = "coal" -> 20 - c.resources.coal
      [] k = "gas" -> 20 - c.resources.gas
      [] k = "forest" -> 50 - c.resources.forest

MostNeeded(c) ==
    LET i == CHOOSE i \in 1..4 :
                 /\ \A j \in 1..4 : Need(c, ResourceKeys[i]) >= Need(c, ResourceKeys[j])
                 /\ \A j \in 1..(i - 1) :
                        Need(c, ResourceKeys[j]) < Need(c, ResourceKeys[i])
    IN ResourceKeys[i]

\* lines 403-406: 200 times the probability that the partner accepts
TradeChance200(c, partner, p) ==
    LET d == c.ideology_score - p.ideology_score
        relation == 100 - (IF d >= 0 THEN d ELSE -d)
    IN 100 + relation
         + (IF GetDiplomaticStatus(c, partner) = "friendly" THEN 20 ELSE 0)

TradePollution(k) ==
    CASE k = "oil" -> 40 [] k = "coal" -> 60 [] k = "gas" -> 20 [] k = "forest" -> 10

\* lines 412, 414 and 417: the buyer after a trade
Bought(c, k, amount) ==
    [c EXCEPT !.resources[k] = c.resources[k] + amount,
              !.money = c.money - amount * 1000,
              !.pollution = c.pollution + TradePollution(k)]

\* the partner paid but line 413 left out: the resource is not handed over
SoldKept(c, k, amount) ==
    [c EXCEPT !.money = c.money + amount * 1000]

\* the partner after a trade that also costs it 2 of happiness
SoldUnhappy(c, k, amount) ==
    [c EXCEPT !.resources[k] = c.resources[k] - amount,
              !.money = c.money + amount * 1000,
              !.happiness = Max(0, c.happiness - 20)]

\* lines 413 and 415: the partner after a trade
Sold(c, k, amount) ==
    [c EXCEPT !.resources[k] = c.resources[k] - amount,
              !.money = c.money + amount * 1000]

\* lines 409-410 and 421-422: both tensions moved by `change`
BothTensions(cs, a, b, change) ==
    [cs EXCEPT ![a] = UpdateTension(cs[a], b, change),
               ![b] = UpdateTension(cs[b], a, change)]

\* joining without line 351, the flag left as it was
JoinUnflagged(c) ==
    [c EXCEPT !.pollution = Max(0, c.pollution - 100),
              !.money = TruncMul(c.money, 95, 100)]

\* join_environment_agreement, lines 351-353
Join(c) ==
    [c EXCEPT !.environment_agreement = 1,
              !.pollution = Max(0, c.pollution - 100),
              !.money = TruncMul(c.money, 95, 100)]

\* lines 356-361: for every other country that has joined, in list order,
\* ease both tensions and set both ideology scores to their mean
RECURSIVE JoinLoop(_, _, _)
JoinLoop(cs, a, i) ==
    IF i > Len(Names) THEN cs
    ELSE LET o == Names[i]
         IN IF o # a /\ cs[o].environment_agreement = 1
            THEN LET eased == BothTensions(cs, a, o, -5)
                     mean == (eased[a].ideology_score + eased[o].ideology_score) \div 2
                 IN JoinLoop([eased EXCEPT ![a].ideology_score = mean,
                                           ![o].ideology_score = mean], a, i + 1)
            ELSE JoinLoop(cs, a, i + 1)

\* lines 368-369
RefusePenalty(c) ==
    [c EXCEPT !.happiness = Max(0, c.happiness - 20),
              !.rebellion_risk = c.rebellion_risk + 20]

\* make_investment_decision, lines 462-467: ten times the efficiency
Efficiency(c, health) ==
    LET base == IF health < 300 THEN 5 ELSE 10
    IN IF c.happiness > 700 THEN (base * 12) \div 10
       ELSE IF c.happiness < 300 THEN (base * 8) \div 10 ELSE base

\* lines 460-461
Invest(c, area) ==
    LET amount == TruncMul(c.money, 5, 100)
    IN [c EXCEPT !.money = c.money - amount,
                 !.investments[area] = c.investments[area] + amount]

\* lines 472 and 489: the pollution added (economy) or removed (environment)
InvestPollution(c, area, eff) ==
    IF area = "economy"
    THEN (IF c.government = "right" THEN 7 ELSE 5) * eff
    ELSE (IF c.government = "right" THEN 10 ELSE 12) * eff

\* lines 471-475: economy, before the Ecosystem is written
EconomyFirst(c, eff) ==
    [c EXCEPT !.production =
                 c.production + (IF c.government = "right" THEN 1000 ELSE 1200) * eff,
              !.pollution = c.pollution + InvestPollution(c, "economy", eff)]

\* lines 478-484: economy, after the Ecosystem is written
EconomySecond(c, eff) ==
    LET rate == (IF c.government = "right" THEN 7 ELSE 5) * eff
    IN [c EXCEPT !.money = TruncMul(c.money, 1000 + rate, 1000),
                 !.resources.oil = c.resources.oil + (5 * eff) \div 10,
                 !.resources.coal = c.resources.coal + (5 * eff) \div 10,
                 !.resources.gas = c.resources.gas + (3 * eff) \div 10,
                 !.happiness = IF c.government = "left"
                               THEN Max(0, c.happiness - 2 * eff)
                               ELSE c.happiness]

\* line 491 with the max left out
EnvironmentFirstUnclamped(c, eff) ==
    [c EXCEPT !.pollution = c.pollution - InvestPollution(c, "environment", eff)]

\* line 491
EnvironmentFirst(c, eff) ==
    [c EXCEPT !.pollution = Max(0, c.pollution - InvestPollution(c, "environment", eff))]

\* lines 496-498
EnvironmentSecond(c, eff) ==
    [c EXCEPT !.happiness = Min(1000, c.happiness + 5 * eff),
              !.money = TruncMul(c.money, 1000 + 2 * eff, 1000),
              !.resources.forest = c.resources.forest + (5 * eff) \div 10]

\* lines 502-506
Infrastructure(c, eff) ==
    LET right == c.government = "right"
    IN [c EXCEPT !.infrastructure_level =
                    Min(1000, c.infrastructure_level + (IF right THEN 25 ELSE 15) * eff),
                 !.happiness = Min(1000, c.happiness + 4 * eff),
                 !.rebellion_risk =
                    Max(0, c.rebellion_risk - (IF right THEN 3 ELSE 2) * eff)]

\* the election held every year, without the test of line 602
PoliticalCheckEveryYear(c) ==
    IF c.happiness <= 500
    THEN [c EXCEPT !.government = Flip(c.government),
                   !.ideology_score = -c.ideology_score,
                   !.happiness = 700]
    ELSE c

\* lines 602-609: the election of every fourth year
PoliticalCheck(c) ==
    IF c.year % 4 = 0 /\ c.happiness <= 500
    THEN [c EXCEPT !.government = Flip(c.government),
                   !.ideology_score = -c.ideology_score,
                   !.happiness = 700]
    ELSE c

\* rebellion, lines 623-632: `succeeds` and `happiness` are its two draws
Rebellion(c, succeeds, happiness) ==
    LET c1 == [c EXCEPT !.population = TruncMul(c.population, 9, 10),
                        !.military_power = TruncMul(c.military_power, 5, 10),
                        !.money = TruncMul(c.money, 5, 10)]
    IN IF succeeds
       THEN [c1 EXCEPT !.government = Flip(c1.government),
                       !.ideology_score = -c1.ideology_score,
                       !.happiness = 700]
       ELSE [c1 EXCEPT !.happiness = happiness * 10]

\* the check with the bound 20 of line 610 taken inclusive
RebellionCheckInclusive(c, succeeds, happiness) ==
    LET c1 == IF c.happiness <= 200 /\ ~c.has_rebelled_this_year
              THEN Rebellion(c, succeeds, happiness) ELSE c
    IN [c1 EXCEPT !.happiness = Max(0, c1.happiness),
                  !.has_rebelled_this_year = FALSE]

\* the check with the bound of line 610 at 10 instead of 20
RebellionCheckBelowTen(c, succeeds, happiness) ==
    LET c1 == IF c.happiness < 100 /\ ~c.has_rebelled_this_year
              THEN Rebellion(c, succeeds, happiness) ELSE c
    IN [c1 EXCEPT !.happiness = Max(0, c1.happiness),
                  !.has_rebelled_this_year = FALSE]

\* lines 610-614
RebellionCheck(c, succeeds, happiness) ==
    LET c1 == IF c.happiness < 200 /\ ~c.has_rebelled_this_year
              THEN Rebellion(c, succeeds, happiness) ELSE c
    IN [c1 EXCEPT !.happiness = Max(0, c1.happiness),
                  !.has_rebelled_this_year = FALSE]

\* ------------------------------------------- the turn task of one country
\* Each action is one stretch of Country.simulate_turn between two accesses
\* to shared state; `with world.ecosystem.lock:` is a step that takes the
\* lock (TaskAcquire) and a step that writes and releases it.
At(a, p) == task[a].pc = p
Goto(a, p) == [task EXCEPT ![a].pc = p]

LockWaits ==
    {"consume_wait", "forest_wait", "regen_wait", "trade_wait", "join_wait",
     "refuse_wait", "economy_wait", "environment_wait"}

HeldPc(p) ==
    CASE p = "consume_wait" -> "consume_held"
      [] p = "forest_wait" -> "forest_held"
      [] p = "regen_wait" -> "regen_held"
      [] p = "trade_wait" -> "trade_held"
      [] p = "join_wait" -> "join_held"
      [] p = "refuse_wait" -> "refuse_held"
      [] p = "economy_wait" -> "economy_held"
      [] p = "environment_wait" -> "environment_held"

TaskAcquire(a) ==
    /\ task[a].pc \in LockWaits
    /\ ecosystem.lock = "free"
    /\ ecosystem' = [ecosystem EXCEPT !.lock = a]
    /\ task' = Goto(a, HeldPc(task[a].pc))
    /\ acc' = NoAccess
    /\ UNCHANGED <<countries, world, orch, hist, draws, agents, call, locks>>

\* regional_pollution[a] += amount with the lock acquired and never released
AddRegionalHeld(a, amount) ==
    [ecosystem EXCEPT !.regional_pollution[a] = @ + amount]

\* regional_pollution[a] += amount (hundredths), and the lock released
AddRegional(a, amount) ==
    [ecosystem EXCEPT !.regional_pollution[a] = @ + amount, !.lock = "free"]

\* lines 521-533
TurnGrowth(a) ==
    /\ At(a, "growth")
    /\ LET c == Growth(countries[a])
       IN IF c.production > 100000
          THEN /\ countries' = [countries EXCEPT ![a] = Consume(c)]
               /\ task' = [task EXCEPT ![a].pc = "consume_wait",
                                       ![a].delta = ConsumptionPollution(c)]
          ELSE /\ countries' = [countries EXCEPT ![a] = c]
               /\ task' = Goto(a, "scarcity")
    /\ hist' = [hist EXCEPT !.runs[a] = @ + 1]
    /\ acc' = NoAccess
    /\ UNCHANGED <<ecosystem, world, orch, draws, agents, call, locks>>

\* lines 534-535
ConsumeWrite(a) ==
    /\ At(a, "consume_held")
    /\ acc' = Access(a, {"regional_pollution"}, {"regional_pollution"})
    /\ ecosystem' = AddRegional(a, 10 * task[a].delta)
    /\ task' = [task EXCEPT ![a].pc = "scarcity", ![a].delta = 0]
    /\ UNCHANGED <<countries, world, orch, hist, draws, agents, call, locks>>

\* lines 537-551 and 555-558
TurnScarcity(a) ==
    /\ At(a, "scarcity")
    /\ LET c == Scarcity(countries[a])
       IN /\ countries' = [countries EXCEPT ![a] = ForestFeedback(c)]
          /\ task' = Goto(a, IF c.resources.forest > 70 THEN "forest_wait" ELSE "regen")
    /\ acc' = NoAccess
    /\ UNCHANGED <<ecosystem, world, orch, hist, draws, agents, call, locks>>

\* lines 552-553
ForestWrite(a) ==
    /\ At(a, "forest_held")
    /\ acc' = Access(a, {"ecosystem_health"}, {"ecosystem_health"})
    /\ ecosystem' = [ecosystem EXCEPT
           !.ecosystem_health = Min(1000, ecosystem.ecosystem_health + 10),
           !.lock = "free"]
    /\ task' = Goto(a, "regen")
    /\ UNCHANGED <<countries, world, orch, hist, draws, agents, call, locks>>

\* lines 559-569
TurnRegen(a) ==
    /\ At(a, "regen")
    /\ LET c == Regenerate(countries[a])
       IN /\ countries' = [countries EXCEPT ![a] = c]
          /\ task' = Goto(a, IF c.production > 100000 THEN "regen_wait" ELSE "eco_check")
    /\ acc' = NoAccess
    /\ UNCHANGED <<ecosystem, world, orch, hist, draws, agents, call, locks>>

\* lines 570-571
RegenWrite(a) ==
    /\ At(a, "regen_held")
    /\ acc' = Access(a, {"regional_pollution"}, {"regional_pollution"})
    /\ ecosystem' = AddRegional(a, 300)
    /\ task' = Goto(a, "eco_check")
    /\ UNCHANGED <<countries, world, orch, hist, draws, agents, call, locks>>

\* lines 572-596: the ecosystem health is read without the lock; then the
\* sports year, the education migration and the tech migration are drawn
TurnEcoCheck(a) ==
    /\ At(a, "eco_check")
    /\ \E sports \in Bool, edu \in Bool, tech \in Bool, percent \in TechMigrationPercent :
         LET c0 == countries[a]
             c1 == EcosystemFeedback(c0, ecosystem.ecosystem_health)
             c2 == IF sports THEN SportsYear(c1) ELSE c1
             c3 == IF edu THEN EducationMigration(c2) ELSE c2
             c4 == IF tech THEN TechMigration(c3, percent) ELSE c3
             cost == Rare(sports) + Rare(edu) + Rare(tech)
         IN /\ sports => c0.year % 4 = 0
            /\ edu => c0.education_level < 4
            /\ tech => c0.tech_level < 5
            /\ tech \/ percent = 3
            /\ draws + cost <= MaxRareDraws
            /\ draws' = draws + cost
            /\ countries' = [countries EXCEPT ![a] = c4]
    /\ acc' = Access(a, {"ecosystem_health"}, {})
    /\ task' = Goto(a, "taxes")
    /\ UNCHANGED <<ecosystem, world, orch, hist, agents, call, locks>>

\* the turn going from the taxes of line 597 straight to line 600
TurnTaxesThenAgree(a) ==
    /\ At(a, "taxes")
    /\ countries' = [countries EXCEPT
           ![a] = CollectTaxes(countries[a], ecosystem.global_pollution)]
    /\ acc' = DecisionRead(a, {"global_pollution"})
    /\ task' = Goto(a, "agree")
    /\ UNCHANGED <<ecosystem, world, orch, hist, draws, agents, call, locks>>

\* line 597, collect_taxes: the global pollution is read without the lock
TurnTaxes(a) ==
    /\ At(a, "taxes")
    /\ countries' = [countries EXCEPT
           ![a] = CollectTaxes(countries[a], ecosystem.global_pollution)]
    /\ acc' = DecisionRead(a, {"global_pollution"})
    /\ task' = Goto(a, "trade")
    /\ UNCHANGED <<ecosystem, world, orch, hist, draws, agents, call, locks>>

\* lines 598-599 and trade_resources, lines 387-411: the partner is drawn;
\* the trade is refused, not possible, rejected (both tensions +5), or
\* accepted, and then the amount is fixed here and moved by TradeSwap
TradeCheck(a) ==
    /\ At(a, "trade")
    /\ acc' = DecisionRead(a, {"ecosystem_health"})
    /\ \E partner \in Others(a), drawn \in Draw5to20, accepted \in Bool :
         LET c == countries[a]
             p == countries[partner]
             k == MostNeeded(c)
             possible == /\ ecosystem.ecosystem_health >= 300
                         /\ Need(c, k) > 0
                         /\ p.resources[k] >= 10
             amount == Min(drawn, p.resources[k])
             funded == p.money >= amount * 1000
             chance == TradeChance200(c, partner, p)
             first == CHOOSE o \in Others(a) : \A q \in Others(a) : Idx(o) <= Idx(q)
             cost == Rare(partner # first)
                       + Rare(possible /\ drawn # 20)
                       + Rare(possible /\ funded /\ ~accepted)
         IN /\ ~possible => drawn = 20
            /\ ~(possible /\ funded) => accepted
            /\ accepted => chance >= 0 \/ ~(possible /\ funded)
            /\ ~accepted => chance < 200
            /\ draws + cost <= MaxRareDraws
            /\ draws' = draws + cost
            /\ IF possible /\ funded /\ accepted
               THEN /\ task' = [task EXCEPT ![a].pc = "trade_swap",
                                            ![a].partner = partner,
                                            ![a].resource = k,
                                            ![a].amount = amount]
                    /\ countries' = countries
               ELSE /\ task' = Goto(a, "agree")
                    /\ countries' = IF possible /\ funded
                                    THEN BothTensions(countries, a, partner, 5)
                                    ELSE countries
    /\ UNCHANGED <<ecosystem, world, orch, hist, agents, call, locks>>

\* lines 412-417
TradeSwap(a) ==
    /\ At(a, "trade_swap")
    /\ LET t == task[a]
       IN /\ countries' = [countries EXCEPT
                 ![a] = Bought(countries[a], t.resource, t.amount),
                 ![t.partner] = Sold(countries[t.partner], t.resource, t.amount)]
          /\ task' = [task EXCEPT ![a].pc = "trade_wait",
                                  ![a].delta = TradePollution(t.resource)]
    /\ acc' = NoAccess
    /\ UNCHANGED <<ecosystem, world, orch, hist, draws, agents, call, locks>>

\* lines 418-422
TradeWrite(a) ==
    /\ At(a, "trade_held")
    /\ acc' = Access(a, {"regional_pollution"}, {"regional_pollution"})
    /\ ecosystem' = AddRegional(a, 10 * task[a].delta)
    /\ countries' = BothTensions(countries, a, task[a].partner, -5)
    /\ task' = [task EXCEPT ![a] = [IdleTask(a) EXCEPT !.pc = "agree"]]
    /\ UNCHANGED <<world, orch, hist, draws, agents, call, locks>>

\* line 600, join_environment_agreement, lines 341-353 and 365: a country
\* that has joined returns at once; otherwise the state is read (the
\* ecosystem health without the lock), the action chosen (any action may
\* come out of choose_action, which explores) and its first effects applied
AgreeDecide(a) ==
    /\ At(a, "agree")
    /\ IF countries[a].environment_agreement = 1
       THEN /\ task' = Goto(a, "invest")
            /\ acc' = NoAccess
            /\ UNCHANGED <<countries, draws>>
       ELSE /\ acc' = AgentCall(a)
            /\ \E action \in {"join", "refuse"} :
                 /\ draws + Rare(action # "join") <= MaxRareDraws
                 /\ draws' = draws + Rare(action # "join")
                 /\ IF action = "join"
                    THEN /\ countries' = [countries EXCEPT ![a] = Join(countries[a])]
                         /\ task' = [task EXCEPT ![a].pc = "join_wait",
                                                 ![a].action = action]
                    ELSE /\ countries' = [countries EXCEPT
                                ![a].pollution = countries[a].pollution + 50]
                         /\ task' = [task EXCEPT ![a].pc = "refuse_wait",
                                                 ![a].action = action]
    /\ UNCHANGED <<ecosystem, world, orch, hist, agents, call, locks>>

\* lines 354-362
JoinWrite(a) ==
    /\ At(a, "join_held")
    /\ acc' = Access(a, {"ecosystem_health"}, {"ecosystem_health"})
    /\ ecosystem' = [ecosystem EXCEPT
           !.ecosystem_health = Min(1000, ecosystem.ecosystem_health + 50),
           !.lock = "free"]
    /\ countries' = JoinLoop(countries, a, 1)
    /\ task' = Goto(a, "agree_end")
    /\ UNCHANGED <<world, orch, hist, draws, agents, call, locks>>

\* lines 366-370
RefuseWrite(a) ==
    /\ At(a, "refuse_held")
    /\ acc' = Access(a, {"regional_pollution"}, {"regional_pollution"})
    /\ ecosystem' = AddRegional(a, 500)
    /\ countries' = [countries EXCEPT ![a] = RefusePenalty(countries[a])]
    /\ task' = Goto(a, "agree_end")
    /\ UNCHANGED <<world, orch, hist, draws, agents, call, locks>>

\* lines 372-380: the new state and the reward read the ecosystem health
\* without the lock; the agreement table is updated
AgreeEnd(a) ==
    /\ At(a, "agree_end")
    /\ acc' = AgentCall(a)
    /\ agents' = Updated(agents, AgentOf(a), "agree_q")
    /\ task' = [task EXCEPT ![a].pc = "invest", ![a].action = "none"]
    /\ UNCHANGED <<countries, ecosystem, world, orch, hist, draws, call, locks>>

\* make_investment_decision without the test of line 445, investing in
\* infrastructure whatever the money
InvestDecideAlways(a) ==
    /\ At(a, "invest")
    /\ acc' = AgentCall(a)
    /\ countries' = [countries EXCEPT ![a] =
           Infrastructure(Invest(countries[a], "infrastructure"),
                          Efficiency(countries[a], ecosystem.ecosystem_health))]
    /\ task' = [task EXCEPT ![a].pc = "invest_end", ![a].action = "infrastructure"]
    /\ UNCHANGED <<ecosystem, world, orch, hist, draws, agents, call, locks>>

\* line 601, make_investment_decision, lines 445-475, 489-491 and 502-506
InvestDecide(a) ==
    /\ At(a, "invest")
    /\ IF countries[a].money < 10000000
       THEN /\ task' = Goto(a, "political")
            /\ acc' = NoAccess
            /\ UNCHANGED <<countries, draws>>
       ELSE /\ acc' = AgentCall(a)
            /\ \E area \in {"economy", "environment", "infrastructure"} :
                 LET c0 == countries[a]
                     eff == Efficiency(c0, ecosystem.ecosystem_health)
                     c == Invest(c0, area)
                 IN /\ draws + Rare(area # "economy") <= MaxRareDraws
                    /\ draws' = draws + Rare(area # "economy")
                    /\ IF TruncMul(c0.money, 5, 100) < 5000
                       THEN /\ countries' = countries
                            /\ task' = Goto(a, "political")
                       ELSE
                       CASE area = "economy" ->
                              /\ countries' = [countries EXCEPT ![a] = EconomyFirst(c, eff)]
                              /\ task' = [task EXCEPT
                                    ![a].pc = "economy_wait", ![a].action = area,
                                    ![a].efficiency = eff,
                                    ![a].delta = InvestPollution(c, area, eff)]
                         [] area = "environment" ->
                              /\ countries' = [countries EXCEPT ![a] = EnvironmentFirst(c, eff)]
                              /\ task' = [task EXCEPT
                                    ![a].pc = "environment_wait", ![a].action = area,
                                    ![a].efficiency = eff,
                                    ![a].delta = InvestPollution(c, area, eff)]
                         [] area = "infrastructure" ->
                              /\ countries' = [countries EXCEPT ![a] = Infrastructure(c, eff)]
                              /\ task' = [task EXCEPT ![a].pc = "invest_end",
                                                      ![a].action = area]
    /\ UNCHANGED <<ecosystem, world, orch, hist, agents, call, locks>>

\* lines 476-487
EconomyWrite(a) ==
    /\ At(a, "economy_held")
    /\ acc' = Access(a, {"regional_pollution"}, {"regional_pollution"})
    /\ ecosystem' = AddRegional(a, 10 * task[a].delta)
    /\ countries' = [countries EXCEPT
           ![a] = EconomySecond(countries[a], task[a].efficiency)]
    /\ task' = Goto(a, "invest_end")
    /\ UNCHANGED <<world, orch, hist, draws, agents, call, locks>>

\* line 494: ecosystem_health plus the investment's gain, at most 100
RestoredHealth(health, c, eff) ==
    Min(1000, health + (IF c.government = "right" THEN 3 ELSE 7) * eff)

\* lines 492-500
EnvironmentWrite(a) ==
    /\ At(a, "environment_held")
    /\ acc' = Access(a, {"regional_pollution", "ecosystem_health", "global_pollution"},
                        {"regional_pollution", "ecosystem_health", "global_pollution"})
    /\ ecosystem' = [ecosystem EXCEPT
           !.regional_pollution[a] = Max(0, @ - 10 * task[a].delta),
           !.ecosystem_health =
               RestoredHealth(ecosystem.ecosystem_health, countries[a], task[a].efficiency),
           !.global_pollution = Max(0, @ - 2 * task[a].efficiency * NumActors),
           !.lock = "free"]
    /\ countries' = [countries EXCEPT
           ![a] = EnvironmentSecond(countries[a], task[a].efficiency)]
    /\ task' = Goto(a, "invest_end")
    /\ UNCHANGED <<world, orch, hist, draws, agents, call, locks>>

\* lines 508-515: the new state and the reward read the ecosystem health
\* without the lock; the investment table is updated
InvestEnd(a) ==
    /\ At(a, "invest_end")
    /\ acc' = AgentCall(a)
    /\ agents' = Updated(agents, AgentOf(a), "invest_q")
    /\ task' = [task EXCEPT ![a] = [IdleTask(a) EXCEPT !.pc = "political"]]
    /\ UNCHANGED <<countries, ecosystem, world, orch, hist, draws, call, locks>>

\* lines 602-616: the election, the rebellion, the end of the year
TurnEnd(a) ==
    /\ At(a, "political")
    /\ \E succeeds \in Bool, happiness \in RebellionHappiness :
         LET c == PoliticalCheck(countries[a])
             rebels == c.happiness < 200 /\ ~c.has_rebelled_this_year
             cost == Rare(succeeds) + Rare(happiness # 30)
         IN /\ ~rebels => (~succeeds /\ happiness = 30)
            /\ succeeds => happiness = 30
            /\ draws + cost <= MaxRareDraws
            /\ draws' = draws + cost
            /\ countries' = [countries EXCEPT ![a] = RebellionCheck(c, succeeds, happiness)]
    /\ task' = [task EXCEPT ![a] = [IdleTask(a) EXCEPT !.pc = "done"]]
    /\ acc' = NoAccess
    /\ UNCHANGED <<ecosystem, world, orch, hist, agents, call, locks>>

\* ------------------------------------------------------ the specification
TurnStep(a) ==
    \/ TaskAcquire(a) \/ TurnGrowth(a) \/ ConsumeWrite(a) \/ TurnScarcity(a)
    \/ ForestWrite(a) \/ TurnRegen(a) \/ RegenWrite(a) \/ TurnEcoCheck(a)
    \/ TurnTaxes(a) \/ TradeCheck(a) \/ TradeSwap(a) \/ TradeWrite(a)
    \/ AgreeDecide(a) \/ JoinWrite(a) \/ RefuseWrite(a) \/ AgreeEnd(a)
    \/ InvestDecide(a) \/ EconomyWrite(a) \/ EnvironmentWrite(a) \/ InvestEnd(a)
    \/ TurnEnd(a)

Next ==
    \/ GlobalEventsCheck \/ GlobalEventsFire \/ OrchAcquire \/ UpdatePollution
    \/ SoundAlarm \/ TriggerDisasters \/ SimulateWar \/ Dispatch \/ Barrier
    \/ NextYear \/ NewEpisodeFresh \/ NewEpisodeReuse
    \/ \E a \in Actors : TurnStep(a)

Spec == Init /\ [][Next]_vars

\* ------------------------------------- simulate_war called on a world
\* populations of the first country that lose, tie and win its attack
WarPopulations == {8000000, 12000000, 16000000, 20000000, 24000000}

\* Two countries alike in technology, oil and gas, both tensions above 70,
\* in year 3: the attack of the first country on the second is decided by
\* its population p alone, and 16 million is equal power
BalancedCountries(p) ==
    [a \in Actors |->
       IF Idx(a) % 2 = 1
       THEN [ NewCountry(p, "right", 30, 90000000, 80, 4, 4, 20) EXCEPT
                !.happiness = 600, !.production = 101500, !.year = 2,
                !.resources = [oil |-> 20, coal |-> 30, gas |-> 20, forest |-> 50],
                !.tension_score = [b \in Actors |-> IF b = a THEN 50 ELSE 80] ]
       ELSE [ NewCountry(12000000, "left", -30, 90000000, 120, 4, 4, 30) EXCEPT
                !.happiness = 600, !.production = 101500, !.year = 2,
                !.resources = [oil |-> 20, coal |-> 30, gas |-> 20, forest |-> 50],
                !.tension_score = [b \in Actors |-> IF b = a THEN 50 ELSE 72] ] ]

\* The scarce world after a trade has overdrawn the first country's oil
\* (lines 396-413: the amount is fixed before the seller's own turn consumes
\* oil, and subtracted after), its tension toward the second still above 70
OverdrawnCountries ==
    [ScarceCountries EXCEPT ![Names[1]].resources.oil = -2]

\* the worlds simulate_war(year) is called on: the year already marked done,
\* as simulate_global_events leaves it, or not marked
WarStarts ==
    { [w EXCEPT !.orch.pc = "war",
                !.world.global_events_done[w.orch.year] = done] :
        w \in { MidEpisode(ScarceCountries, 8, 970, 0),
                MidEpisode(OverdrawnCountries, 8, 970, 0),
                MidEpisode(HostileCountries, 9, 400, 2) }
              \cup { MidEpisode(BalancedCountries(p), 3, 600, 0) : p \in WarPopulations },
        done \in Bool }

InitWar ==
    \E s \in WarStarts :
        /\ countries = s.countries
        /\ ecosystem = s.ecosystem
        /\ world = s.world
        /\ orch = s.orch
        /\ hist = s.hist
        /\ task = [a \in Actors |-> IdleTask(a)]
        /\ acc = NoAccess
        /\ draws = 0
        /\ agents = NewAgents
        /\ call = NoCall
        /\ locks = NoLocks

NextWar == SimulateWar \/ WarBuild \/ WarResolve \/ WarReturn

SpecWar == InitWar /\ [][NextWar]_vars

\* --------------------------------------- one simulate_world call with a fault
\* An exception raised inside a try block of the program reaches a handler of
\* the form safe_print(..., exception=True) (lines 114, 126, 154, 209, 297,
\* 441, 517, 618, 684, 687, ...).  safe_print hands its keyword arguments to
\* print (line 48), print accepts no keyword `exception`, so the handler
\* itself raises TypeError and the exception leaves the function.  The only
\* block that still runs is the `finally` of line 688.

\* simulate_world has returned or has been left by an exception, after the
\* `finally` of lines 688-689 has logged 'Simulation finished'
SimulationEnded == orch.pc \in {"finished", "aborted"}

\* a fresh world with one more year to simulate after the first, and a world
\* in the last year of an episode
FaultStarts ==
    { [FreshStart("batch") EXCEPT !.orch.last = Years + 1],
      MidEpisode(ScarceCountries, 8, 970, 0) }

InitFault ==
    \E s \in FaultStarts :
        /\ countries = s.countries
        /\ ecosystem = s.ecosystem
        /\ world = s.world
        /\ orch = s.orch
        /\ hist = s.hist
        /\ task = [a \in Actors |-> IdleTask(a)]
        /\ acc = NoAccess
        /\ draws = 0
        /\ agents = NewAgents
        /\ call = NoCall
        /\ locks = NoLocks

\* `with world.ecosystem.lock:` left by an exception releases the lock
Released(who) ==
    [ecosystem EXCEPT !.lock = IF ecosystem.lock = who THEN "free" ELSE @]

\* simulate_turn, lines 520-618: a statement of the turn raises (the append
\* to simulation_log.txt of line 49, say); the handler of the function it is
\* in and the handler of line 618 raise TypeError in turn, and the future of
\* the task holds that exception
TaskFault(a) ==
    /\ OrchAt("barrier")
    /\ task[a].pc \notin {"idle", "done", "raised"}
    /\ draws < MaxRareDraws
    /\ draws' = draws + 1
    /\ task' = [task EXCEPT ![a] = [IdleTask(a) EXCEPT !.pc = "raised"]]
    /\ ecosystem' = Released(a)
    /\ acc' = NoAccess
    /\ UNCHANGED <<countries, world, orch, hist, agents, call, locks>>

\* lines 680-689: future.result() raises what the task raised, the handler of
\* line 684 raises TypeError, the `with` of line 678 waits for every task of
\* the pool, the handler of line 687 raises TypeError, line 689 logs
\* 'Simulation finished' and the exception leaves simulate_world: line 686
\* and the remaining years are not run
BarrierRaise ==
    /\ OrchAt("barrier")
    /\ \A a \in Actors : task[a].pc \in {"done", "raised"}
    /\ \E a \in Actors : task[a].pc = "raised"
    /\ orch' = [orch EXCEPT !.pc = "aborted"]
    /\ acc' = NoAccess
    /\ UNCHANGED <<countries, ecosystem, world, task, hist, draws, agents, call, locks>>

\* lines 675-677: a statement of simulate_global_events, of one of the three
\* functions it calls or of simulate_war raises; each handler on the way out
\* (114, 126, 154, 209, 297, 687) raises TypeError, line 689 logs
\* 'Simulation finished' and the exception leaves simulate_world before the
\* tasks of the year are submitted
OrchFault ==
    /\ orch.pc \in {"ge_events", "update_pollution", "update_pollution_locked",
                    "sound_alarm", "sound_alarm_locked", "trigger_disasters",
                    "trigger_disasters_locked", "war"}
    /\ draws < MaxRareDraws
    /\ draws' = draws + 1
    /\ ecosystem' = Released("orch")
    /\ orch' = [orch EXCEPT !.pc = "aborted"]
    /\ acc' = NoAccess
    /\ UNCHANGED <<countries, world, task, hist, agents, call, locks>>

NextFault ==
    \/ GlobalEventsCheck \/ GlobalEventsFire \/ OrchAcquire \/ UpdatePollution
    \/ SoundAlarm \/ TriggerDisasters \/ SimulateWar \/ Dispatch \/ Barrier
    \/ NextYear \/ OrchFault \/ BarrierRaise
    \/ \E a \in Actors : TurnStep(a) \/ TaskFault(a)

\* the pool runs every submitted task and the main thread is never held back
\* for ever: every step that stays possible is taken
SpecFault == InitFault /\ [][NextFault]_vars /\ WF_vars(NextFault)

\* ------------------------------- one simulate_world call with all its locks
\* Three locks are taken during a year: World.lock (lines 165 and 219, by the
\* orchestrating thread, around the test of global_events_done only), the
\* Ecosystem lock (by the orchestrating thread in update_pollution,
\* sound_alarm and trigger_disasters, by the turn tasks around their writes)
\* and print_lock (line 48, by every safe_print).  update_pollution,
\* sound_alarm and trigger_disasters call safe_print inside their
\* `with self.lock:` (lines 109, 112, 122, 137, 144, 152); a turn task calls
\* it only after the `with` has ended (lines 536, 554, 362, 370, 420, 615).

\* where a thread is: its position and the year
Position(t) == IF t = "orch" THEN <<orch.pc, orch.year>> ELSE <<task[t].pc, orch.year>>

\* the positions from which the next statement of the thread is a safe_print:
\* line 675, lines 109-112, 122, 137-152 and 686 for the orchestrating
\* thread; lines 536, 362 or 370, and 615 for a turn task
LogPoints(t) ==
    IF t = "orch"
    THEN {"global_events", "update_pollution_locked", "sound_alarm_locked",
          "trigger_disasters_locked", "year_completed"}
    ELSE {"scarcity", "agree_end", "political"}

\* the positions from which the next statement is `with self.lock:` of the
\* World, lines 165 and 219
WorldLockPoints == {"global_events", "war"}

\* safe_print, line 48: print_lock is taken, by a thread that is about to log
LogAcquire(t) ==
    /\ Position(t)[1] \in LogPoints(t)
    /\ t \in Actors => OrchAt("barrier")
    /\ locks.logged[t] # Position(t)
    /\ locks.print_lock = "free"
    /\ locks' = [locks EXCEPT !.print_lock = t, !.logged[t] = Position(t)]
    /\ UNCHANGED <<countries, ecosystem, world, orch, task, acc, hist, draws, agents,
                   call>>

\* safe_print, lines 48-53: the line is written and print_lock released; the
\* holder waits for no other lock
LogRelease(t) ==
    /\ locks.print_lock = t
    /\ locks' = [locks EXCEPT !.print_lock = "free"]
    /\ UNCHANGED <<countries, ecosystem, world, orch, task, acc, hist, draws, agents,
                   call>>

\* the thread is not inside safe_print and has logged what it logs here
Logged(t) ==
    /\ locks.print_lock # t
    /\ Position(t)[1] \in LogPoints(t) => locks.logged[t] = Position(t)

\* lines 165 and 219: World.lock is taken, after the line of 675 is logged
WorldAcquire ==
    /\ orch.pc \in WorldLockPoints
    /\ Logged("orch")
    /\ locks.world_lock = "free"
    /\ locks.entered # Position("orch")
    /\ locks' = [locks EXCEPT !.world_lock = "orch", !.entered = Position("orch")]
    /\ UNCHANGED <<countries, ecosystem, world, orch, task, acc, hist, draws, agents,
                   call>>

\* lines 168 and 221: the `with` ends once the test has been made
WorldRelease ==
    /\ locks.world_lock = "orch"
    /\ locks.entered # Position("orch")
    /\ locks' = [locks EXCEPT !.world_lock = "free"]
    /\ UNCHANGED <<countries, ecosystem, world, orch, task, acc, hist, draws, agents,
                   call>>

\* the orchestrating thread can take its next step: it makes the test of
\* lines 166 and 220 holding World.lock and everything else without it
OrchRuns ==
    /\ Logged("orch")
    /\ IF orch.pc \in WorldLockPoints
       THEN locks.world_lock = "orch" /\ locks.entered = Position("orch")
       ELSE locks.world_lock = "free"

\* the fresh world in its first year with every outcome of the draws, and
\* the scarce world, in which a trade is concluded, with every draw coming
\* out as the default
InitLocks ==
    \E s \in { [start |-> FreshStart("batch"), draws |-> 0],
                [start |-> MidEpisode(ScarceCountries, 8, 970, 0),
                 draws |-> MaxRareDraws] } :
        /\ countries = s.start.countries
        /\ ecosystem = s.start.ecosystem
        /\ world = s.start.world
        /\ orch = s.start.orch
        /\ hist = s.start.hist
        /\ task = [a \in Actors |-> IdleTask(a)]
        /\ acc = NoAccess
        /\ draws = s.draws
        /\ agents = NewAgents
        /\ call = NoCall
        /\ locks = NoLocks

NextLocks ==
    \/ \E t \in Threads : LogAcquire(t) \/ LogRelease(t)
    \/ WorldAcquire \/ WorldRelease
    \/ OrchRuns /\ GlobalEventsCheck
    \/ OrchRuns /\ GlobalEventsFire
    \/ OrchRuns /\ OrchAcquire
    \/ OrchRuns /\ UpdatePollution
    \/ OrchRuns /\ SoundAlarm
    \/ OrchRuns /\ TriggerDisasters
    \/ OrchRuns /\ SimulateWar
    \/ OrchRuns /\ Dispatch
    \/ OrchRuns /\ Barrier
    \/ OrchRuns /\ NextYear
    \/ \E a \in Actors :
         \/ Logged(a) /\ TaskAcquire(a)
         \/ Logged(a) /\ TurnGrowth(a)
         \/ Logged(a) /\ ConsumeWrite(a)
         \/ Logged(a) /\ TurnScarcity(a)
         \/ Logged(a) /\ ForestWrite(a)
         \/ Logged(a) /\ TurnRegen(a)
         \/ Logged(a) /\ RegenWrite(a)
         \/ Logged(a) /\ TurnEcoCheck(a)
         \/ Logged(a) /\ TurnTaxes(a)
         \/ Logged(a) /\ TradeCheck(a)
         \/ Logged(a) /\ TradeSwap(a)
         \/ Logged(a) /\ TradeWrite(a)
         \/ Logged(a) /\ AgreeDecide(a)
         \/ Logged(a) /\ JoinWrite(a)
         \/ Logged(a) /\ RefuseWrite(a)
         \/ Logged(a) /\ AgreeEnd(a)
         \/ Logged(a) /\ InvestDecide(a)
         \/ Logged(a) /\ EconomyWrite(a)
         \/ Logged(a) /\ EnvironmentWrite(a)
         \/ Logged(a) /\ InvestEnd(a)
         \/ Logged(a) /\ TurnEnd(a)

\* the interpreter keeps running some thread that can run: a step that stays
\* possible is taken.  Nothing is assumed about which waiting thread a
\* released lock goes to
SpecLocks == InitLocks /\ [][NextLocks]_vars /\ WF_vars(NextLocks)

\* ------------------------------------------- single functions, called once
\* simulate_war on a world of three countries (the first three of line 691):
\* the ordered pairs of distinct countries, and the candidates of lines
\* 222-230 for the tensions and the global pollution (in tenths) given
WarNames == {"Sofialand", "Jimenara", "Paulovia"}
WarPairs == { pr \in WarNames \X WarNames : pr[1] # pr[2] }
WarCandidates(tension, gp) ==
    { pr \in WarPairs : tension[pr] + (IF gp > 500 THEN 5 ELSE 0) > 70 }

\* trigger_disasters with the flood of line 146 striking the worst country only
StruckFloodOne(level, d1, d2, d3, target, reg) ==
    LET order == <<"Sofialand", "Jimenara", "Paulovia">>
        pos(a) == CHOOSE i \in 1..3 : order[i] = a
        worst(S) == CHOOSE a \in S :
                      \A b \in S : reg[a] > reg[b] \/ (reg[a] = reg[b] /\ pos(a) <= pos(b))
    IN [ disease |-> IF level >= 1 \/ d1 THEN {worst(WarNames)} ELSE {},
         earthquake |-> IF level >= 2 \/ d2 THEN {target} ELSE {},
         flood |-> IF level >= 3 \/ d3 THEN {worst(WarNames)} ELSE {} ]

\* trigger_disasters, lines 131-146, on the three countries: the countries
\* each disaster strikes, for the alarm level, the three draws of lines 131,
\* 138 and 145, the choice of line 139 and the regional pollution given.
\* max() takes the first of the highest in list order (line 132); sorted()
\* is stable, so the first two of line 146 are ranked by value, then by order
Struck(level, d1, d2, d3, target, reg) ==
    LET order == <<"Sofialand", "Jimenara", "Paulovia">>
        pos(a) == CHOOSE i \in 1..3 : order[i] = a
        worst(S) == CHOOSE a \in S :
                      \A b \in S : reg[a] > reg[b] \/ (reg[a] = reg[b] /\ pos(a) <= pos(b))
        first == worst(WarNames)
    IN [ disease |-> IF level >= 1 \/ d1 THEN {first} ELSE {},
         earthquake |-> IF level >= 2 \/ d2 THEN {target} ELSE {},
         flood |-> IF level >= 3 \/ d3
                   THEN {first, worst(WarNames \ {first})} ELSE {} ]

\* RLAgent: a table is a defaultdict, so a state never seen reads as the row
\* of zeros (line 61), here of the agreement table
AgreeActions == {"join", "refuse"}
Row(q_table, state) ==
    IF state \in DOMAIN q_table THEN q_table[state] ELSE [a \in AgreeActions |-> 0]

\* update with the maximum taken over the row of `state`, not of `new_state`
UpdateOwnRow(q_table, state, action, reward, new_state) ==
    LET max_next == CHOOSE v \in {Row(q_table, state)[a] : a \in AgreeActions} :
                        \A a \in AgreeActions : v >= Row(q_table, state)[a]
        q == Row(q_table, state)[action]
    IN [s \in DOMAIN q_table \cup {new_state, state} |->
          [a \in AgreeActions |->
             IF s = state /\ a = action
             THEN 100 * q + 10 * reward + 9 * max_next - 10 * q
             ELSE 100 * Row(q_table, s)[a]]]

\* RLAgent.update, lines 83-85, with alpha = 0.1 and gamma = 0.9 (lines 58-59):
\* the table after the call, every value times 100.  Reading a row inserts it.
Update(q_table, state, action, reward, new_state) ==
    LET max_next == CHOOSE v \in {Row(q_table, new_state)[a] : a \in AgreeActions} :
                        \A a \in AgreeActions : v >= Row(q_table, new_state)[a]
        q == Row(q_table, state)[action]
    IN [s \in DOMAIN q_table \cup {new_state, state} |->
          [a \in AgreeActions |->
             IF s = state /\ a = action
             THEN 100 * q + 10 * reward + 9 * max_next - 10 * q
             ELSE 100 * Row(q_table, s)[a]]]

\* choose_action with max() taking the last of the highest values of the row
ChooseActionLast(order, row, explore, pick) ==
    IF explore
    THEN order[pick]
    ELSE order[CHOOSE i \in 1..Len(order) :
                 /\ \A j \in 1..Len(order) : row[order[i]] >= row[order[j]]
                 /\ \A j \in (i + 1)..Len(order) : row[order[j]] < row[order[i]]]

\* RLAgent.choose_action, lines 77-81, on the row q_table[state] whose keys
\* are in the order of lines 60-62: below epsilon (explore) random.choice of
\* the keys, here the pick-th; otherwise max(row, key=row.get), which keeps
\* the first key in iteration order among those of the highest value
ChooseAction(order, row, explore, pick) ==
    IF explore
    THEN order[pick]
    ELSE order[CHOOSE i \in 1..Len(order) :
                 /\ \A j \in 1..Len(order) : row[order[i]] >= row[order[j]]
                 /\ \A j \in 1..(i - 1) : row[order[j]] < row[order[i]]]

\* the arguments the calls are made with
CallInputs ==
    LET c0 == FreshCountries[Names[1]]
        tables == UNION { [seen -> [AgreeActions -> {-1, 0, 2}]] : seen \in SUBSET {1, 2} }
    IN { [fn |-> "update", q_table |-> t, state |-> s, action |-> a,
          reward |-> r, new_state |-> n, done |-> FALSE, result |-> <<>>] :
            t \in tables, s \in {1, 2}, a \in AgreeActions, r \in {-1, 1}, n \in {1, 2} }
       \cup
       { [fn |-> "multiplier", c |-> [c0 EXCEPT !.infrastructure_level = x],
          done |-> FALSE, result |-> 0] :
            x \in {0, 490, 495, 499, 500, 501, 600, 699, 700, 701, 710, 1000} }
       \cup
       { [fn |-> "update_tension",
          c |-> [c0 EXCEPT !.tension_score[Names[2]] = old],
          partner |-> Names[2], change |-> ch, done |-> FALSE,
          result |-> [tension |-> old, status |-> "none"]] :
            old \in 0..100, ch \in {-30, -20, -5, 5, 10, 15, 30} }
       \cup
       { [fn |-> "invest_environment",
          c |-> [c0 EXCEPT !.government = g, !.happiness = h, !.pollution = pl],
          health |-> eh, done |-> FALSE, result |-> pl] :
            g \in {"right", "left"}, h \in {290, 300, 700, 710, 1000},
            pl \in {0, 50, 119, 120, 144, 145, 300}, eh \in {290, 300, 600} }
       \cup
       { [fn |-> "simulate_war", tension |-> t, global_pollution |-> gp,
          candidates |-> {}, done |-> FALSE, result |-> <<>>] :
            t \in [WarPairs -> {65, 66, 71}], gp \in {500, 501} }
       \cup
       { [fn |-> "political_check",
          c |-> [c0 EXCEPT !.year = y, !.happiness = h, !.government = g,
                           !.ideology_score = i],
          done |-> FALSE, result |-> c0] :
            y \in {1, 3, 4, 5, 8, 10}, h \in {0, 190, 499, 500, 501, 700, 1000},
            g \in {"right", "left"}, i \in {-30, 0, 20} }
       \cup
       { [fn |-> "rebellion_check",
          c |-> [c0 EXCEPT !.happiness = h, !.population = pop, !.money = m,
                           !.military_power = mil, !.government = g],
          done |-> FALSE, result |-> c0] :
            h \in {0, 100, 199, 200, 201, 700},
            pop \in {7, 1000005, 15150000}, m \in {-5001, 0, 8000001},
            mil \in {0, 41, 120}, g \in {"right", "left"} }
       \cup
       UNION { { [fn |-> "choose_action", table |-> tb, order |-> o, seen |-> sn,
                  row |-> IF sn THEN rw ELSE [a \in DOMAIN rw |-> 0],
                  done |-> FALSE,
                  result |-> [action |-> "none", explored |-> FALSE]] :
                    sn \in Bool,
                    rw \in [{o[i] : i \in 1..Len(o)} -> {-1, 0, 2}] } :
               <<tb, o>> \in { <<"investment", <<"economy", "environment", "infrastructure">> >>,
                               <<"agreement", <<"join", "refuse">> >>,
                               <<"war", <<"attack", "peace">> >> } }
       \cup
       { [fn |-> "trigger_disasters", alarm_level |-> l, regional_pollution |-> reg,
          done |-> FALSE,
          result |-> [disease |-> {}, earthquake |-> {}, flood |-> {}]] :
            l \in 0..3, reg \in [WarNames -> {10, 50, 51}] }
       \cup
       { [fn |-> "sound_alarm", first |-> l, alarm_level |-> l,
          global_pollution |-> gp, calls |-> 0, done |-> FALSE, result |-> l] :
            l \in 0..3,
            gp \in {0, 1000 * NumActors}
                 \cup { AlarmThreshold(i) * 10 * NumActors + d :
                          i \in 1..3, d \in {-1, 0, 1} } }

InitCalls ==
    /\ countries = FreshStart("batch").countries
    /\ ecosystem = FreshStart("batch").ecosystem
    /\ world = FreshStart("batch").world
    /\ orch = FreshStart("batch").orch
    /\ hist = FreshStart("batch").hist
    /\ task = [a \in Actors |-> IdleTask(a)]
    /\ acc = NoAccess
    /\ draws = 0
    /\ agents = NewAgents
    /\ call \in CallInputs
    /\ locks = NoLocks

Returned(result) == [call EXCEPT !.done = TRUE, !.result = result]
CallFrame ==
    UNCHANGED <<countries, ecosystem, world, orch, task, acc, hist, draws, agents,
                locks>>

CallUpdate ==
    /\ call.fn = "update" /\ ~call.done
    /\ call' = Returned(Update(call.q_table, call.state, call.action,
                                call.reward, call.new_state))
    /\ CallFrame

\* trigger_disasters, line 133
CallMultiplier ==
    /\ call.fn = "multiplier" /\ ~call.done
    /\ call' = Returned(Multiplier2(call.c))
    /\ CallFrame

\* update_tension, lines 334-335: the new tension and the status it prints
CallUpdateTension ==
    /\ call.fn = "update_tension" /\ ~call.done
    /\ LET c == UpdateTension(call.c, call.partner, call.change)
       IN call' = Returned([tension |-> c.tension_score[call.partner],
                            status |-> GetDiplomaticStatus(c, call.partner)])
    /\ CallFrame

\* make_investment_decision with target_area 'environment', lines 460-491:
\* the country's pollution after line 491
CallEnvironment ==
    /\ call.fn = "invest_environment" /\ ~call.done
    /\ call' = Returned(EnvironmentFirst(Invest(call.c, "environment"),
                                          Efficiency(call.c, call.health)).pollution)
    /\ CallFrame

\* sound_alarm, lines 116-124, called up to MaxCalls times in a row on an
\* Ecosystem whose global pollution stays as it is
CallSoundAlarm ==
    /\ call.fn = "sound_alarm" /\ call.calls < MaxCalls
    /\ LET level == AlarmAfter(call.alarm_level, call.global_pollution)
       IN call' = [call EXCEPT !.alarm_level = level, !.result = level,
                               !.calls = @ + 1, !.done = TRUE]
    /\ CallFrame

\* simulate_war, lines 222-233: the candidates are collected and shuffled,
\* and the loop walks the first two; the result is the list of pairs it walks
CallSimulateWar ==
    /\ call.fn = "simulate_war" /\ ~call.done
    /\ LET candidates == WarCandidates(call.tension, call.global_pollution)
       IN \E q \in FirstTwo(candidates) :
            call' = [Returned(q) EXCEPT !.candidates = candidates]
    /\ CallFrame

\* simulate_turn, lines 602-609, on a country that has reached them
CallPoliticalCheck ==
    /\ call.fn = "political_check" /\ ~call.done
    /\ call' = Returned(PoliticalCheck(call.c))
    /\ CallFrame

\* simulate_turn, lines 610-614, and rebellion, on a country that has reached
\* line 610, with the two draws of lines 626 and 632
CallRebellionCheck ==
    /\ call.fn = "rebellion_check" /\ ~call.done
    /\ \E succeeds \in Bool, happiness \in RebellionHappiness :
         call' = Returned(RebellionCheck(call.c, succeeds, happiness))
    /\ CallFrame

\* trigger_disasters, lines 131-146, with every outcome of its draws
CallTriggerDisasters ==
    /\ call.fn = "trigger_disasters" /\ ~call.done
    /\ \E d1 \in Bool, d2 \in Bool, d3 \in Bool, target \in WarNames :
         call' = Returned(Struck(call.alarm_level, d1, d2, d3, target,
                                 call.regional_pollution))
    /\ CallFrame

\* choose_action, lines 77-81, with every outcome of its draws; a state not
\* seen before reads as the row of zeros of lines 60-62
CallChooseAction ==
    /\ call.fn = "choose_action" /\ ~call.done
    /\ \E explore \in Bool, pick \in 1..Len(call.order) :
         /\ explore \/ pick = 1
         /\ call' = Returned([action |-> ChooseAction(call.order, call.row, explore, pick),
                              explored |-> explore])
    /\ CallFrame

NextCalls ==
    \/ CallUpdate \/ CallMultiplier \/ CallUpdateTension \/ CallEnvironment
    \/ CallSoundAlarm \/ CallSimulateWar \/ CallPoliticalCheck
    \/ CallRebellionCheck \/ CallTriggerDisasters \/ CallChooseAction

SpecCalls == InitCalls /\ [][NextCalls]_vars

\* ------------------------------------------------------------ the claims
\* C1: in every year, if some ordered pair of distinct countries has a
\* tension above 70 (with the +5 of a global pollution above 50) when
\* simulate_war is called, then at least one such pair has been resolved
\* before the turn tasks are dispatched.
C1_WarResolved ==
    (orch.pc \in {"dispatch", "barrier", "year_completed"} /\ hist.candidates # {})
        => hist.resolved >= 1

C3_YearCounterAtBarrier ==
    OrchAt("year_completed")
        => \A a \in Actors : hist.runs[a] = 1 /\ countries[a].year = orch.year

\* C4: while the global events (update_pollution, sound_alarm and
\* trigger_disasters included) or the war resolution of a year execute, no
\* turn task is running: those of the year before have all returned and
\* those of this year are not yet submitted.
C4_EventsApartFromTasks ==
    orch.pc \in {"global_events", "ge_events", "update_pollution",
                 "update_pollution_locked", "sound_alarm", "sound_alarm_locked",
                 "trigger_disasters", "trigger_disasters_locked", "war"}
        => TasksIdle

\* the events of a later call run after every turn task of the year before
\* has returned
C4_EventsAfterTasks ==
    /\ OrchAt("war") /\ orch.episode = 2
    /\ \A a \in Actors : task[a].pc = "done" /\ hist.runs[a] = 1

\* C5: every step that writes an Ecosystem field is taken by one that holds
\* the Ecosystem lock.
C5_WritesUnderLock == acc.writes # {} => acc.held

\* C6: every read of an Ecosystem field that feeds a decision of a turn task
\* is taken by a task that holds the Ecosystem lock.
C6_DecisionReadsUnderLock == acc.decision => acc.held

\* C7: in every reachable state every country's oil, coal, gas and forest
\* are integers greater than or equal to 0.
C7_ResourcesNonNegative ==
    \A a \in Actors : \A k \in Resources : countries[a].resources[k] \in Nat

\* C8: the step that carries out an accepted trade of `amount` of a resource
\* adds exactly `amount` to the buyer's holding and takes exactly `amount`
\* from the partner's, so their sum is unchanged, and touches no other
\* resource; a trade that is refused, not possible or rejected changes no
\* country's resources.
C8_TradeConserves ==
    [][\A a \in Actors :
         /\ (At(a, "trade_swap") /\ task'[a].pc = "trade_wait") =>
              LET b == task[a].partner
                  k == task[a].resource
                  n == task[a].amount
              IN /\ countries'[a].resources[k] = countries[a].resources[k] + n
                 /\ countries'[b].resources[k] = countries[b].resources[k] - n
                 /\ countries'[a].resources[k] + countries'[b].resources[k]
                      = countries[a].resources[k] + countries[b].resources[k]
                 /\ \A c \in Actors : \A j \in Resources \ {k} :
                        countries'[c].resources[j] = countries[c].resources[j]
         /\ (At(a, "trade") /\ task'[a].pc = "agree") =>
              \A c \in Actors : countries'[c].resources = countries[c].resources]_vars

\* an accepted trade has just moved its amount
C8_TradeDone ==
    \E a \in Actors :
        /\ task[a].pc = "trade_wait"
        /\ task[a].amount >= 5
        /\ task[a].partner # a

\* C9: in every reachable state every country's happiness is between 0 and
\* 100 (0 and 1000 tenths).
C9_HappinessInRange ==
    \A a \in Actors : countries[a].happiness >= 0 /\ countries[a].happiness <= 1000

\* a turn task has taken a country's happiness down to the floor
C9_HappinessAtFloor ==
    \E a \in Actors : countries[a].happiness = 0 /\ task[a].pc = "trade"

\* C10: in every reachable state the ecosystem health is between 0 and 100
\* (0 and 1000 tenths).
C10_HealthInRange ==
    ecosystem.ecosystem_health >= 0 /\ ecosystem.ecosystem_health <= 1000

\* update_pollution has taken the ecosystem health down to the floor
C10_HealthAtFloor ==
    OrchAt("sound_alarm") /\ ecosystem.ecosystem_health = 0

\* C11: the alarm level is always one of 0, 1, 2, 3, and within an episode no
\* step of any operation lowers it.
C11_AlarmRatchet ==
    /\ [](ecosystem.alarm_level \in 0..3)
    /\ [][orch'.episode = orch.episode
            => ecosystem'.alarm_level >= ecosystem.alarm_level]_vars

\* sound_alarm has raised the alarm from level 1 to level 2
C11_AlarmRaised ==
    /\ OrchAt("trigger_disasters")
    /\ ecosystem.alarm_level = 2
    /\ orch.year = 5

\* C12: the tension of every ordered pair of distinct actors is an integer in
\* 0..100; a freshly set-up episode starts with every tension in 40..60; and
\* every step that changes a tension within an episode leaves the clamped sum
\* of the old value and one of the changes the operations make.
C12_TensionClamped ==
    /\ [](\A a \in Actors : \A b \in Others(a) :
             countries[a].tension_score[b] \in 0..100)
    /\ []((OrchAt("global_events") /\ \A a \in Actors : countries[a].year = 0)
             => \A a \in Actors : \A b \in Others(a) :
                  countries[a].tension_score[b] \in 40..60)
    /\ [][orch'.episode = orch.episode
            => \A a \in Actors : \A b \in Others(a) :
                 \/ countries'[a].tension_score[b] = countries[a].tension_score[b]
                 \/ \E change \in {-20, -5, 5, 10, 30} :
                       countries'[a].tension_score[b] =
                           Min(100, Max(0, countries[a].tension_score[b] + change))]_vars

\* a rejected trade has raised a tension of 98 and the clamp has cut it at 100
C12_TensionAtCeiling ==
    \E a \in Actors : \E b \in Others(a) :
        /\ task[a].pc = "trade_wait"
        /\ task[a].partner = b
        /\ countries[a].tension_score[b] = 100

\* C13: every actor's rebellion risk is never negative; it is 0 in a freshly
\* set-up episode; and within an episode it falls only in the actor's own
\* sports year (by 2) or infrastructure investment (by 0.03 or 0.02 times the
\* efficiency), each floored at 0.
C13_RebellionRiskFloored ==
    /\ [](\A a \in Actors : countries[a].rebellion_risk \in Nat)
    /\ []((OrchAt("global_events") /\ \A a \in Actors : countries[a].year = 0)
             => \A a \in Actors : countries[a].rebellion_risk = 0)
    /\ [][orch'.episode = orch.episode
            => \A a \in Actors :
                 countries'[a].rebellion_risk < countries[a].rebellion_risk
                 => \/ /\ At(a, "eco_check")
                       /\ countries[a].year % 4 = 0
                       /\ countries'[a].rebellion_risk =
                              Max(0, countries[a].rebellion_risk - 2000)
                    \/ /\ At(a, "invest")
                       /\ task'[a].action = "infrastructure"
                       /\ \E eff \in {4, 5, 6, 8, 10, 12} : \E k \in {2, 3} :
                             countries'[a].rebellion_risk =
                                 Max(0, countries[a].rebellion_risk - k * eff)]_vars

\* a sports year has taken 2 off a rebellion risk of 0.3 and the floor has
\* left 0
C13_RiskAtFloor ==
    \E a \in Actors :
        /\ At(a, "taxes")
        /\ countries[a].year = 8
        /\ countries[a].environment_agreement = 1
        /\ countries[a].rebellion_risk = 0

\* C14: when the attacker chooses 'attack' and the attack score equals the
\* defense score, the step changes no country and no Ecosystem field, and the
\* only table updated is the attacker's war table, with the reward -1 for
\* the attack and the state unchanged.
C14_EqualPowerFrame ==
    [][(OrchAt("war_resolve") /\ hist'.resolved = hist.resolved + 1)
         => LET attacker == Head(orch.potential_wars)[1]
                defender == Head(orch.potential_wars)[2]
                entry == hist'.wars[Len(hist'.wars)]
            IN (/\ entry.action = "attack"
                /\ AttackScore(countries[attacker]) = DefenseScore(countries[defender]))
               => /\ countries' = countries
                  /\ ecosystem' = ecosystem
                  /\ agents' = [agents EXCEPT ![attacker].war_q = @ + 1]
                  /\ entry.attacker = attacker
                  /\ entry.reward = -10
                  /\ entry.new_state = entry.state]_vars

\* an attack at equal power has just been resolved
C14_EqualPowerMet ==
    /\ hist.wars # <<>>
    /\ LET entry == hist.wars[Len(hist.wars)]
       IN /\ entry.action = "attack"
          /\ entry.reward = -10
          /\ AttackScore(countries[entry.attacker])
                = DefenseScore(countries[entry.defender])

\* C15: update(table, s, a, r, s') sets Q[s][a] to q + alpha * (r + gamma * m
\* - q), with q the old Q[s][a], alpha = 0.1, gamma = 0.9 and m the greatest
\* old value in the row of s' (0 when s' was never seen), and leaves the value
\* of every other (state, action) entry as it was.  Values are times 100.
C15_UpdateRule ==
    (call.fn = "update" /\ call.done)
    => LET old(s, a) == IF s \in DOMAIN call.q_table THEN call.q_table[s][a] ELSE 0
           m == IF call.new_state \in DOMAIN call.q_table
                THEN Max(call.q_table[call.new_state]["join"],
                         call.q_table[call.new_state]["refuse"])
                ELSE 0
           q == old(call.state, call.action)
       IN \A s \in {1, 2} : \A a \in AgreeActions :
            LET new == IF s \in DOMAIN call.result THEN call.result[s][a] ELSE 0
            IN IF s = call.state /\ a = call.action
               THEN new = 100 * q + 10 * (call.reward - q) + 9 * m
               ELSE new = 100 * old(s, a)

\* an update has moved on to a state never seen, another entry of the table
\* holding a value other than 0
C15_UpdateOnUnseen ==
    /\ call.fn = "update" /\ call.done
    /\ call.new_state \notin DOMAIN call.q_table
    /\ call.state \in DOMAIN call.q_table
    /\ call.q_table[call.state] = [join |-> 2, refuse |-> -1]
    /\ call.action = "join"
    /\ call.result[call.state]["join"] = 170

\* C16: the severity multiplier is 2.0 for an infrastructure level below 50,
\* 0.5 above 70 and 1.0 from 50 to 70 inclusive: 49 gives 2.0; 50, 60 and 70
\* give 1.0; 71 gives 0.5.  The result is twice the multiplier.
C16_SeverityMultiplier ==
    (call.fn = "multiplier" /\ call.done)
    => LET level == call.c.infrastructure_level
       IN /\ level < 500 => call.result = 4
          /\ level > 700 => call.result = 1
          /\ (level >= 500 /\ level <= 700) => call.result = 2
          /\ level = 490 => call.result = 4
          /\ level \in {500, 600, 700} => call.result = 2
          /\ level = 710 => call.result = 1

\* the multiplier has been taken at the level 70, the upper bound of 1.0
C16_AtSeventy ==
    /\ call.fn = "multiplier" /\ call.done
    /\ call.c.infrastructure_level = 700
    /\ call.result = 2

\* C17: update_tension leaves min(100, max(0, old + change)), and the status
\* is 'hostile' exactly above 70, 'friendly' exactly below 30, else
\* 'neutral'; 60 + 15 gives 75, hostile.
C17_TensionAndStatus ==
    (call.fn = "update_tension" /\ call.done)
    => LET old == call.c.tension_score[call.partner]
           new == call.result.tension
       IN /\ new = Min(100, Max(0, old + call.change))
          /\ call.result.status = "hostile" <=> new > 70
          /\ call.result.status = "friendly" <=> new < 30
          /\ call.result.status \in {"hostile", "friendly", "neutral"}
          /\ (old = 60 /\ call.change = 15)
               => (new = 75 /\ call.result.status = "hostile")

\* a tension of 60 has been raised by 15
C17_SixtyPlusFifteen ==
    /\ call.fn = "update_tension" /\ call.done
    /\ call.c.tension_score[call.partner] = 60
    /\ call.change = 15
    /\ call.result = [tension |-> 75, status |-> "hostile"]

\* C18: an environment investment with the Ecosystem health at least 30 and
\* the happiness above 70 takes 12 (right) or 14.4 (left) off the country's
\* pollution, floored at 0; in general it takes 10 (right) or 12 (left) times
\* the efficiency.  Pollution is in tenths, the efficiency times 10.
C18_EnvironmentPollution ==
    (call.fn = "invest_environment" /\ call.done)
    => LET c == call.c
           right == c.government = "right"
           base == IF call.health < 300 THEN 5 ELSE 10
           eff == IF c.happiness > 700 THEN (base * 12) \div 10
                  ELSE IF c.happiness < 300 THEN (base * 8) \div 10 ELSE base
       IN /\ (call.health >= 300 /\ c.happiness > 700)
               => call.result = Max(0, c.pollution - (IF right THEN 120 ELSE 144))
          /\ call.result = Max(0, c.pollution - (IF right THEN 10 ELSE 12) * eff)

\* a left government at efficiency 1.2 has taken 14.4 off a pollution of 14.5
C18_LeftAtFullEfficiency ==
    /\ call.fn = "invest_environment" /\ call.done
    /\ call.c.government = "left"
    /\ call.c.happiness = 710
    /\ call.health = 300
    /\ call.c.pollution = 145
    /\ call.result = 1

\* C19: every step of the parallel phase that reads or writes a table of an
\* agent is a step of the turn task of the actor the agent belongs to, so no
\* two tasks running at once ever touch the same agent's tables.
C19_TablesOwnTaskOnly ==
    acc.agent # "none"
    => /\ acc.by \in Actors
       /\ acc.agent = acc.by
       /\ \A b \in Others(acc.by) : AgentOf(b) # acc.agent

\* a task has just used its agent's table while another task is between its
\* own choose_action and update
C19_BothDeciding ==
    \E a \in Actors : \E b \in Others(a) :
        /\ acc.agent = a
        /\ acc.by = a
        /\ task[b].pc \in {"join_wait", "join_held", "refuse_wait", "refuse_held",
                            "agree_end", "economy_wait", "economy_held",
                            "environment_wait", "environment_held", "invest_end"}

\* C20: the step that starts the next episode carries over nothing but the
\* Q-tables, which stay as the previous episode left them: after it the alarm
\* level is 0, the Ecosystem health 60, no year is marked done, and every
\* country's agreement flag and year counter are 0.
C20_OnlyTablesCarriedOver ==
    [][orch'.episode # orch.episode
         => /\ agents' = agents
            /\ ecosystem'.alarm_level = 0
            /\ ecosystem'.ecosystem_health = 600
            /\ \A y \in DoneYears : ~world'.global_events_done[y]
            /\ \A a \in Actors : /\ countries'[a].environment_agreement = 0
                                  /\ countries'[a].year = 0]_vars

\* C21: a simulate_world call processes every year even when a task or an
\* orchestrator operation faults: it ends (logging 'Simulation finished')
\* only from the completed barrier of its last year, so the barrier of the
\* faulting year was reached and every later year was processed in order.
C21_EveryYearProcessed ==
    [][(~SimulationEnded /\ SimulationEnded')
          => (OrchAt("year_completed") /\ orch.year = orch.last)]_vars

\* the parts of C21 that hold with a fault: the call always ends with the
\* line 'Simulation finished' logged, and a task that faults never keeps a
\* sibling from running to its end
C21_AlwaysEnds == <>SimulationEnded
C21_SiblingsComplete ==
    \A a \in Actors : (task[a].pc = "raised") ~>
        (\A b \in Actors : task[b].pc \in {"done", "raised"})


\* C22: a sound_alarm call raises the alarm level by at most one step: to
\* exactly current + 1 when the global pollution exceeds the threshold of
\* level current + 1 (30, 50, 70), and not at all otherwise; from level 0
\* level 3 is reached after no fewer than three calls.
C22_OneStepPerCall ==
    /\ [][(call.fn = "sound_alarm" /\ call' # call)
            => call'.alarm_level =
                 IF /\ call.alarm_level < 3
                    /\ call.global_pollution >
                         AlarmThreshold(call.alarm_level + 1) * 10 * NumActors
                 THEN call.alarm_level + 1
                 ELSE call.alarm_level]_vars
    /\ [](call.fn = "sound_alarm"
            => /\ call.alarm_level <= call.first + call.calls
               /\ (call.first = 0 /\ call.alarm_level = 3 => call.calls >= 3))

\* the third call in a row at a global pollution above 70 has taken the alarm
\* from level 0 to level 3
C22_ThreeCallsToThree ==
    /\ call.fn = "sound_alarm"
    /\ call.first = 0 /\ call.calls = 3 /\ call.alarm_level = 3
    /\ call.global_pollution > 700 * NumActors

\* C23: one simulate_war call processes at most two ordered pairs; each pair
\* it processes is a pair of distinct countries whose tension, plus 5 when the
\* global pollution is above 50, was above 70 when the candidates were
\* collected; a pair at 70 or below is never processed.
C23_AtMostTwoHostilePairs ==
    (call.fn = "simulate_war" /\ call.done)
      => /\ Len(call.result) <= 2
         /\ \A i \in 1..Len(call.result) :
              LET pr == call.result[i]
              IN /\ pr[1] # pr[2]
                 /\ call.tension[pr]
                      + (IF call.global_pollution > 500 THEN 5 ELSE 0) > 70

\* the same in the two-country world simulate_war is called on directly: the
\* pairs resolved are candidates, and no more than two are resolved
C23_ResolvedAreCandidates ==
    /\ hist.resolved <= 2
    /\ \A i \in 1..Len(hist.wars) :
         <<hist.wars[i].attacker, hist.wars[i].defender>> \in hist.candidates

\* a call that found more than two candidates, some only through the +5 of
\* a polluted world, and processed two of them
C23_CutToTwo ==
    /\ call.fn = "simulate_war" /\ call.done
    /\ Cardinality(call.candidates) > 2
    /\ Len(call.result) = 2
    /\ \E i \in 1..2 : call.tension[call.result[i]] = 66
    /\ \E pr \in WarPairs : pr \notin call.candidates

C24_SpoilsOfSolventLoser ==
    [][(OrchAt("war_resolve") /\ hist'.resolved = hist.resolved + 1)
         => LET attacker == Head(orch.potential_wars)[1]
                defender == Head(orch.potential_wars)[2]
                won == AttackerWins(countries[attacker], countries[defender])
                higher == IF won THEN attacker ELSE defender
                lower == IF won THEN defender ELSE attacker
                w == countries[higher]
                l == countries[lower]
            IN (/\ hist'.wars[Len(hist'.wars)].action = "attack"
                /\ ~EqualPower(countries[attacker], countries[defender])
                /\ \A r \in Resources : l.resources[r] >= 0)
               => /\ \A r \in Resources :
                       LET loss == TruncMul(l.resources[r], 3, 10)
                       IN /\ countries'[lower].resources[r] = l.resources[r] - loss
                          /\ countries'[higher].resources[r] = w.resources[r] + loss
                  /\ countries'[lower].population
                       = l.population - TruncMul(l.population, 5, 100)
                  /\ countries'[higher].population
                       = w.population - TruncMul(w.population, 2, 100)]_vars

\* C25: every turn runs its phases once each and in the order growth,
\* consumption, scarcity, environmental feedback, taxes, trade, agreement,
\* investment, election (every fourth year), rebellion check, year-end reset:
\* a task starts at the growth, every step takes it forward in the order of
\* simulate_turn, and no step passes over the start of a phase.
C25_PhasesInOrder ==
    [][LET order == << "growth", "consume_wait", "consume_held", "scarcity",
                       "forest_wait", "forest_held", "regen", "regen_wait",
                       "regen_held", "eco_check", "taxes", "trade",
                       "trade_swap", "trade_wait", "trade_held", "agree",
                       "join_wait", "join_held", "refuse_wait", "refuse_held",
                       "agree_end", "invest", "economy_wait", "economy_held",
                       "environment_wait", "environment_held", "invest_end",
                       "political", "done" >>
           starts == {"growth", "scarcity", "regen", "eco_check", "taxes",
                      "trade", "agree", "invest", "political", "done"}
           rank(p) == CHOOSE i \in 1..Len(order) : order[i] = p
       IN \A a \in Actors :
            task'[a].pc # task[a].pc
              => IF task[a].pc \in {"idle", "done"}
                 THEN task'[a].pc = "growth"
                 ELSE /\ rank(task'[a].pc) > rank(task[a].pc)
                      /\ \A e \in starts :
                           ~(/\ rank(task[a].pc) < rank(e)
                             /\ rank(e) < rank(task'[a].pc))]_vars

\* a turn of a fourth year has run to its end, election included, while the
\* other country's task is in the middle of a trade
C25_FourthYearTurnDone ==
    \E a \in Actors :
        /\ At(a, "done")
        /\ countries[a].year % 4 = 0
        /\ \E b \in Others(a) : At(b, "trade_held")

\* C26: join_environment_agreement on a country whose flag is already 1
\* changes no country, no Ecosystem field and no table; choosing 'join' sets
\* the flag to 1; and within an episode a flag that is 1 stays 1.
C26_AgreementKept ==
    /\ [][\A a \in Actors :
            (/\ At(a, "agree")
             /\ countries[a].environment_agreement = 1
             /\ task'[a] # task[a])
              => /\ countries' = countries
                 /\ ecosystem' = ecosystem
                 /\ agents' = agents
                 /\ task'[a].pc = "invest"]_vars
    /\ [][\A a \in Actors :
            (At(a, "agree") /\ task'[a].action = "join")
              => countries'[a].environment_agreement = 1]_vars
    /\ [][orch'.episode = orch.episode
            => \A a \in Actors :
                 countries[a].environment_agreement = 1
                   => countries'[a].environment_agreement = 1]_vars

\* a country that had joined before has passed line 600 with no update of its
\* agreement table, while the other country has just joined
C26_JoinedBefore ==
    \E a \in Actors :
        /\ At(a, "invest")
        /\ countries[a].environment_agreement = 1
        /\ agents[AgentOf(a)].agree_q = 0
        /\ \E b \in Others(a) :
             At(b, "join_held") /\ countries[b].environment_agreement = 1

\* C27: make_investment_decision on a country whose money is below
\* 10,000,000 changes nothing: no field of any country (money, investments,
\* happiness, pollution, production, infrastructure, rebellion risk and
\* resources among them), no Ecosystem field and no table; the turn goes on
\* to the election.
C27_NoInvestmentWithoutFunds ==
    [][\A a \in Actors :
         (/\ At(a, "invest")
          /\ countries[a].money < 10000000
          /\ task'[a] # task[a])
           => /\ countries' = countries
              /\ ecosystem' = ecosystem
              /\ agents' = agents
              /\ task'[a].pc = "political"]_vars

\* a country with less than 10,000,000 has passed line 601 with its
\* investment table never updated
C27_PassedWithoutFunds ==
    \E a \in Actors :
        /\ At(a, "political")
        /\ countries[a].money < 10000000
        /\ countries[a].investments =
             [economy |-> 0, environment |-> 0, infrastructure |-> 0]
        /\ agents[AgentOf(a)].invest_q = 0

\* C28: the election acts only in a turn whose year counter is divisible by
\* 4: with a happiness above 50 nothing changes; with a happiness of 50 or
\* less the government flips, the ideology score is negated and the happiness
\* becomes 70, and nothing else changes.  In any other year nothing changes.
C28_ElectionEveryFourthYear ==
    (call.fn = "political_check" /\ call.done)
      => LET c == call.c
         IN call.result =
              IF c.year % 4 = 0 /\ c.happiness <= 500
              THEN [c EXCEPT
                      !.government = IF c.government = "right" THEN "left" ELSE "right",
                      !.ideology_score = 0 - c.ideology_score,
                      !.happiness = 700]
              ELSE c

\* an election at a happiness of exactly 50 has turned a right government
\* with ideology score 20 into a left one with -20
C28_VotedOutAtFifty ==
    /\ call.fn = "political_check" /\ call.done
    /\ call.c.year = 8 /\ call.c.happiness = 500
    /\ call.c.government = "right" /\ call.c.ideology_score = 20
    /\ call.result.government = "left" /\ call.result.ideology_score = -20
    /\ call.result.happiness = 700

\* C29: the rebellion check rebels exactly when the happiness it finds is
\* below 20, once: the population becomes int(0.9 * population), the military
\* power and the money int(0.5 * value), and the happiness either 70 with the
\* government flipped and the ideology negated, or a value in 30..40 with the
\* government as it was; with a happiness of 20 or more the country is left
\* as it is; the rebelled flag is false when the year ends.
C29_RebellionBelowTwenty ==
    (call.fn = "rebellion_check" /\ call.done)
      => LET c == call.c
             r == call.result
             rest(x) == [x EXCEPT !.population = 0, !.military_power = 0,
                                  !.money = 0, !.happiness = 0,
                                  !.government = "right", !.ideology_score = 0]
         IN /\ ~r.has_rebelled_this_year
            /\ IF c.happiness < 200
               THEN /\ r.population = TruncMul(c.population, 9, 10)
                    /\ r.military_power = TruncMul(c.military_power, 5, 10)
                    /\ r.money = TruncMul(c.money, 5, 10)
                    /\ \/ /\ r.happiness = 700
                          /\ r.government # c.government
                          /\ r.ideology_score = 0 - c.ideology_score
                       \/ /\ r.happiness \in 300..400
                          /\ r.government = c.government
                          /\ r.ideology_score = c.ideology_score
                    /\ rest(r) = rest(c)
               ELSE r = c

\* a rebellion at a happiness of 19.9 has failed: the population of
\* 15,150,000 is down to 13,635,000 and the government stands
C29_RebellionFailed ==
    /\ call.fn = "rebellion_check" /\ call.done
    /\ call.c.happiness = 199 /\ call.c.population = 15150000
    /\ call.result.population = 13635000
    /\ call.result.happiness = 400
    /\ call.result.government = call.c.government

\* C30: when update_pollution returns, the global pollution is the mean of
\* the countries' pollution as it then is, every regional entry is the
\* country's own pollution plus a tenth of the sum of the others', whatever
\* had been added to the entries since they were last recomputed, and the
\* ecosystem health is what it was less floor(global pollution / 5), kept
\* within 0..100.
C30_PollutionRecomputed ==
    [][(OrchAt("update_pollution_locked") /\ orch'.pc = "sound_alarm")
         => LET total == SumOver([a \in Actors |-> countries'[a].pollution], Actors)
                drop == 10 * (total \div (50 * NumActors))
            IN /\ ecosystem'.global_pollution = total
               /\ \A a \in Actors :
                    ecosystem'.regional_pollution[a]
                      = 10 * countries'[a].pollution
                        + SumOver([b \in Actors |-> countries'[b].pollution],
                                  Actors \ {a})
               /\ ecosystem'.ecosystem_health
                    = IF ecosystem.ecosystem_health - drop < 0 THEN 0
                      ELSE IF ecosystem.ecosystem_health - drop > 1000 THEN 1000
                      ELSE ecosystem.ecosystem_health - drop
               /\ \A a \in Actors : countries'[a].pollution = countries[a].pollution]_vars

\* update_pollution has returned after an event of the same year had added
\* its pollution to every country and every regional entry, and the health
\* has gone down
C30_RecomputedAfterEvent ==
    /\ OrchAt("sound_alarm")
    /\ AnyEvent(world.global_events)
    /\ EventRegional(world.global_events) > 0
    /\ ecosystem.global_pollution > 0
    /\ ecosystem.ecosystem_health < 970
    /\ orch.year = 8

\* C31: trigger_disasters at alarm level 1 or more applies the disease
\* whatever the draw, at level 2 or more the earthquake as well, at level 3
\* the flood as well; the disease strikes one country, none more polluted in
\* its region than it, and the flood strikes two, none of the others more
\* polluted than either.
C31_DisastersByAlarm ==
    (call.fn = "trigger_disasters" /\ call.done)
      => LET r == call.result
             reg == call.regional_pollution
         IN /\ call.alarm_level >= 1 => r.disease # {}
            /\ call.alarm_level >= 2 => r.earthquake # {}
            /\ call.alarm_level >= 3 => r.flood # {}
            /\ r.disease # {}
                 => /\ Cardinality(r.disease) = 1
                    /\ \A a \in r.disease : \A b \in WarNames : reg[a] >= reg[b]
            /\ r.earthquake # {} => Cardinality(r.earthquake) = 1
            /\ r.flood # {}
                 => /\ Cardinality(r.flood) = 2
                    /\ \A a \in r.flood : \A b \in WarNames \ r.flood : reg[a] >= reg[b]

\* at alarm level 3 all three disasters have struck with no draw needed: the
\* disease the one country at 51, the flood that country and one at 50
C31_AllThreeAtLevelThree ==
    /\ call.fn = "trigger_disasters" /\ call.done
    /\ call.alarm_level = 3
    /\ call.regional_pollution["Sofialand"] = 10
    /\ call.regional_pollution["Jimenara"] = 50
    /\ call.regional_pollution["Paulovia"] = 51
    /\ call.result.disease = {"Paulovia"}
    /\ call.result.flood = {"Paulovia", "Jimenara"}
    /\ call.result.earthquake = {"Sofialand"}

\* C32: choose_action returns one of the actions of the table; when it does
\* not explore, no action of the row has a higher value than the one returned
\* and none of equal value comes before it in the order of the table, so on
\* a state not seen before it returns economy, join and attack.
C32_GreedyFirstMaximal ==
    (call.fn = "choose_action" /\ call.done)
      => LET o == call.order
             row == call.row
             chosen == call.result.action
             first == [investment |-> "economy", agreement |-> "join", war |-> "attack"]
         IN /\ \E i \in 1..Len(o) : o[i] = chosen
            /\ ~call.result.explored
                 => /\ \A i \in 1..Len(o) : row[chosen] >= row[o[i]]
                    /\ \A i, j \in 1..Len(o) :
                         (o[j] = chosen /\ i < j) => row[o[i]] < row[chosen]
                    /\ (\A i \in 1..Len(o) : row[o[i]] = 0) => chosen = first[call.table]
                    /\ ~call.seen => chosen = first[call.table]

\* the greedy choice on a seen row in which environment and infrastructure
\* tie for the highest value: environment, the earlier of the two
C32_TieKeepsEarlier ==
    /\ call.fn = "choose_action" /\ call.done
    /\ call.table = "investment" /\ call.seen
    /\ call.row["economy"] = -1
    /\ call.row["environment"] = 2
    /\ call.row["infrastructure"] = 2
    /\ ~call.result.explored
    /\ call.result.action = "environment"

\* C33: from the moment a country's turn of the year has returned until the
\* year is completed its happiness is at least 20, whatever the turns still
\* running do; so when the wait for the turns ends every country's happiness
\* is at least 20.
C33_HappyAtBarrier ==
    (OrchAt("barrier") \/ OrchAt("year_completed"))
      => \A a \in Actors : At(a, "done") => countries[a].happiness >= 200

\* year 5 of the degraded world is completed: the first country entered it
\* at a happiness of 3, rebelled in its turn, which halved its military power
\* of 20, and failed, and stands at a happiness of 40
C33_RebelledAndAboveTwenty ==
    /\ OrchAt("year_completed") /\ orch.year = 5 /\ BarrierReady
    /\ countries[Names[1]].military_power = 10
    /\ countries[Names[1]].happiness = 400
    /\ countries[Names[1]].government = "right"

\* C35: while the turns of a year run, a step of one country's turn changes
\* of another country only its resources and money (the swap of a trade), its
\* tension towards the stepping country (a trade rejected or concluded, or
\* the stepping country joining the agreement the other has joined) and its
\* ideology score (that joining); every other field of the other country,
\* happiness, population, production, pollution, government, rebellion risk,
\* infrastructure level, year, agreement flag and investments among them, is
\* as it was.
C35_OthersFrame ==
    [][OrchAt("barrier")
         => \A a \in Actors : task'[a] # task[a]
              => \A b \in Others(a) :
                   LET old == countries[b]
                       new == countries'[b]
                       rest(x) == [x EXCEPT !.resources = 0, !.money = 0,
                                            !.tension_score = 0, !.ideology_score = 0]
                   IN /\ rest(new) = rest(old)
                      /\ (new.resources # old.resources \/ new.money # old.money)
                           => task[a].pc = "trade_swap" /\ task[a].partner = b
                      /\ new.tension_score # old.tension_score
                           => /\ task[a].pc \in {"trade", "trade_held", "join_held"}
                              /\ \A o \in Others(a) :
                                   new.tension_score[o] = old.tension_score[o]
                      /\ new.ideology_score # old.ideology_score
                           => task[a].pc = "join_held" /\ old.environment_agreement = 1
      ]_vars

\* year 8 of the scarce world: the first country has bought oil from the
\* second and joined the agreement the second had joined, before the second
\* has taken a step of its own turn; the second has less oil, a lower tension
\* towards the first and the mean ideology score, and its happiness of 15
C35_PartnerWrittenByTradeAndJoin ==
    /\ OrchAt("barrier") /\ orch.year = 8
    /\ At(Names[1], "agree_end") /\ At(Names[2], "growth")
    /\ countries[Names[1]].environment_agreement = 1
    /\ countries[Names[2]].resources.oil < 12
    /\ countries[Names[2]].tension_score[Names[1]] = 45
    /\ countries[Names[2]].ideology_score = 0
    /\ countries[Names[2]].happiness = 150

\* C34: in a year that no fault interrupts, a turn task waiting for the
\* Ecosystem lock comes to hold it, the orchestrating thread waiting for it
\* comes to hold it, a thread inside safe_print leaves it, and once the turns
\* are submitted the year is completed.
C34_NoDeadlock ==
    /\ \A a \in Actors : (task[a].pc \in LockWaits) ~> (ecosystem.lock = a)
    /\ (orch.pc \in {"update_pollution", "sound_alarm", "trigger_disasters"})
         ~> (ecosystem.lock = "orch")
    /\ \A t \in Threads : (locks.print_lock = t) ~> (locks.print_lock # t)
    /\ OrchAt("barrier") ~> OrchAt("year_completed")

\* one turn task waits for the Ecosystem lock that the other holds, while the
\* other is not the holder of print_lock and the waiting one has logged
C34_WaitsForHolder ==
    /\ OrchAt("barrier")
    /\ task[Names[1]].pc \in LockWaits
    /\ ecosystem.lock = Names[2]
    /\ locks.print_lock = "free"
    /\ locks.logged[Names[1]] # <<>>

====
